---- MODULE Spec2Model ----
(***************************************************************************)
(* Model of the regularised 2D grid smoothing of src/smooth2.py:           *)
(* build_diff_matrix, build_regularization and smooth2, together with the  *)
(* caller that owns the arrays.                                            *)
(*                                                                         *)
(* numpy arrays live in a heap of array objects, so that a view, a copy    *)
(* and an in-place slice assignment are different things.  Floating-point  *)
(* samples are modelled by exact rationals <<num, den>> (den > 0, lowest   *)
(* terms); <<0, 0>> is NaN.  spsolve is modelled by exact Gauss-Jordan     *)
(* elimination with row pivoting, which returns the unique solution of a   *)
(* non-singular system and a vector of NaN for a singular one.             *)
(***************************************************************************)
EXTENDS Integers, Sequences, FiniteSets, TLC

(***************************************************************************)
(* Bounds of the model.                                                    *)
(***************************************************************************)
MaxN == 2        \* the input grids of each shape have 1..MaxN samples per axis
MaxCoupled == 6  \* most samples of a window penalised along both axes at once
                 \* (keeps the exact rationals of the solve within TLC's integers)

(***************************************************************************)
(* Exact rational arithmetic for the float samples.                        *)
(***************************************************************************)
Abs(a) == IF a < 0 THEN -a ELSE a

RECURSIVE Gcd(_, _)
Gcd(a, b) == IF b = 0 THEN a ELSE Gcd(b, a % b)

NaN == <<0, 0>>

IsNaN(x) == x[2] = 0

IsZero(x) == x[1] = 0 /\ x[2] /= 0

Norm(n, d) ==
    IF d = 0 THEN NaN
    ELSE LET g == Gcd(Abs(n), Abs(d))
             s == IF d < 0 THEN -1 ELSE 1
         IN  <<s * (n \div g), s * (d \div g)>>

Rat(n) == <<n, 1>>

RAdd(x, y) ==
    IF IsNaN(x) \/ IsNaN(y) THEN NaN
    ELSE LET g == Gcd(x[2], y[2])
         IN  Norm(x[1] * (y[2] \div g) + y[1] * (x[2] \div g), (x[2] \div g) * y[2])

RNeg(x) == IF IsNaN(x) THEN NaN ELSE <<-x[1], x[2]>>

RSub(x, y) == RAdd(x, RNeg(y))

RMul(x, y) ==
    IF IsNaN(x) \/ IsNaN(y) THEN NaN
    ELSE LET g1 == Gcd(Abs(x[1]), y[2])
             g2 == Gcd(Abs(y[1]), x[2])
         IN  Norm((x[1] \div g1) * (y[1] \div g2), (x[2] \div g2) * (y[2] \div g1))

RDiv(x, y) ==
    IF IsNaN(x) \/ IsNaN(y) \/ y[1] = 0 THEN NaN
    ELSE RMul(x, Norm(y[2], y[1]))

(***************************************************************************)
(* Matrices.  A matrix is a record [rows, cols, e] with e[i][j] the entry  *)
(* of row i and column j, both counted from 0 as in the source.  The       *)
(* operators of scipy.sparse used by the source are modelled by their      *)
(* dense meaning: the storage format does not change any entry.            *)
(***************************************************************************)

\* A sparse matrix in CSR format and a numpy array hold their entries: an
\* entry is computed once, when the object is built, and read afterwards.
stored(f) == IF f = f THEN f ELSE f

Mat(m, n, Entry(_, _)) ==
    [rows |-> m, cols |-> n,
     e |-> stored([i \in 0..(m - 1) |-> [j \in 0..(n - 1) |-> Entry(i, j)]])]

\* Variant: a matrix of ones in place of the identity.
Ones(n) == LET E(i, j) == 1 IN Mat(n, n, E)

\* eye(n, format='csr')
Eye(n) == LET E(i, j) == IF i = j THEN 1 ELSE 0 IN Mat(n, n, E)

\* X.T
Transpose(X) == LET E(i, j) == X.e[j][i] IN Mat(X.cols, X.rows, E)

RECURSIVE DotFrom(_, _, _, _, _)
DotFrom(X, Y, i, j, k) ==
    IF k >= X.cols THEN 0
    ELSE X.e[i][k] * Y.e[k][j] + DotFrom(X, Y, i, j, k + 1)

\* X @ Y
MatMul(X, Y) == LET E(i, j) == DotFrom(X, Y, i, j, 0) IN Mat(X.rows, Y.cols, E)

\* kron(X, Y, format='csr')
Kron(X, Y) ==
    LET E(i, j) == X.e[i \div Y.rows][j \div Y.cols] * Y.e[i % Y.rows][j % Y.cols]
    IN  Mat(X.rows * Y.rows, X.cols * Y.cols, E)

\* c * X
Scale(c, X) == LET E(i, j) == c * X.e[i][j] IN Mat(X.rows, X.cols, E)

\* Variant: X - Y
MatSub(X, Y) == LET E(i, j) == X.e[i][j] - Y.e[i][j] IN Mat(X.rows, X.cols, E)

\* X + Y
MatAdd(X, Y) == LET E(i, j) == X.e[i][j] + Y.e[i][j] IN Mat(X.rows, X.cols, E)

(***************************************************************************)
(* build_diff_matrix(n): diags([-1, 1], [0, 1], shape=(n - 1, n)).         *)
(* Defined for n >= 1; for n = 0 the shape is (-1, 0) and diags raises     *)
(* ValueError, which DiffMatrixRaises states.                              *)
(***************************************************************************)
DiffMatrixRaises(n) == n < 1

\* Variant: diags([1, 1], [0, 1], ...), a sum of neighbours, not a difference.
build_sum_matrix(n) ==
    LET E(i, j) == IF j = i \/ j = i + 1 THEN 1 ELSE 0
    IN  Mat(n - 1, n, E)

build_diff_matrix(n) ==
    LET E(i, j) == IF j = i THEN -1 ELSE IF j = i + 1 THEN 1 ELSE 0
    IN  Mat(n - 1, n, E)

(***************************************************************************)
(* build_regularization(n1, n2, r1, r2)                                    *)
(***************************************************************************)
build_regularization(n1, n2, r1, r2) ==
    LET I1 == Eye(n1)
        I2 == Eye(n2)
        D1 == build_diff_matrix(n1)
        R1 == Kron(I2, MatMul(Transpose(D1), D1))
        D2 == build_diff_matrix(n2)
        R2 == Kron(MatMul(Transpose(D2), D2), I1)
    IN  MatAdd(Scale(r1, R1), Scale(r2, R2))

(***************************************************************************)
(* spsolve(lhs, f): Gauss-Jordan elimination over the rationals on the     *)
(* augmented matrix [lhs | f], a function row -> column -> value whose     *)
(* column N holds the right-hand side.  A singular matrix gives a vector   *)
(* of NaN (scipy warns and fills the solution with nan; it does not        *)
(* raise).                                                                 *)
(***************************************************************************)
Augment(lhs, f) ==
    stored([i \in 0..(lhs.rows - 1) |->
        [j \in 0..lhs.cols |-> IF j < lhs.cols THEN Rat(lhs.e[i][j]) ELSE f[i]]])

PivotRows(M, k, N) == {p \in k..(N - 1) : ~IsZero(M[p][k])}

Min(S) == CHOOSE x \in S : \A y \in S : x <= y

SwapRows(M, a, b) ==
    [i \in DOMAIN M |-> IF i = a THEN M[b] ELSE IF i = b THEN M[a] ELSE M[i]]

EliminateColumn(M, k, N) ==
    stored([i \in DOMAIN M |->
        IF i = k \/ IsZero(M[i][k]) THEN M[i]
        ELSE LET m == RDiv(M[i][k], M[k][k])
             IN  [j \in 0..N |->
                    IF IsZero(M[k][j]) THEN M[i][j]
                    ELSE RSub(M[i][j], RMul(m, M[k][j]))]])

RECURSIVE GaussJordan(_, _, _)
GaussJordan(M, k, N) ==
    IF k >= N THEN [singular |-> FALSE, M |-> M]
    ELSE IF PivotRows(M, k, N) = {} THEN [singular |-> TRUE, M |-> M]
    ELSE LET p == Min(PivotRows(M, k, N))
             S == SwapRows(M, k, p)
         IN  GaussJordan(EliminateColumn(S, k, N), k + 1, N)

spsolve(lhs, f) ==
    LET N == lhs.rows
        g == GaussJordan(Augment(lhs, f), 0, N)
    IN  IF g.singular
        THEN [i \in 0..(N - 1) |-> NaN]
        ELSE stored([i \in 0..(N - 1) |-> RDiv(g.M[i][N], g.M[i][i])])

(***************************************************************************)
(* numpy arrays.  An array object is a record [n1, n2, v] with v[i1][i2]   *)
(* the sample at first index i1 and second index i2.  The heap is a        *)
(* sequence of array objects and a reference is a position in it.          *)
(***************************************************************************)
Array(m, n, Entry(_, _)) ==
    [n1 |-> m, n2 |-> n,
     v |-> stored([i1 \in 0..(m - 1) |-> [i2 \in 0..(n - 1) |-> Entry(i1, i2)]])]

\* The bounds start:stop of a Python slice of an axis of length n.
SliceBound(b, n) ==
    IF b < 0 THEN (IF b + n < 0 THEN 0 ELSE b + n)
    ELSE IF b > n THEN n ELSE b

Slice(start, stop, n) ==
    LET lo == SliceBound(start, n)
        hi == SliceBound(stop, n)
    IN  [lo |-> lo, hi |-> IF hi < lo THEN lo ELSE hi]

\* Variant: the first axis is read one sample early, data[i1s-1:i1e-1, i2s:i2e],
\* index -1 being the last sample as in Python.
GetSlice_early(a, s1, s2) ==
    LET E(i1, i2) == a.v[(s1.lo + i1 + a.n1 - 1) % a.n1][s2.lo + i2]
    IN  Array(s1.hi - s1.lo, s2.hi - s2.lo, E)

\* data[i1s:i1e, i2s:i2e]
GetSlice(a, s1, s2) ==
    LET E(i1, i2) == a.v[s1.lo + i1][s2.lo + i2]
    IN  Array(s1.hi - s1.lo, s2.hi - s2.lo, E)

\* a[i1s:i1e, i2s:i2e] = sub, in place on the array object a
SetSlice(a, s1, s2, sub) ==
    LET E(i1, i2) ==
            IF s1.lo <= i1 /\ i1 < s1.hi /\ s2.lo <= i2 /\ i2 < s2.hi
            THEN sub.v[i1 - s1.lo][i2 - s2.lo]
            ELSE a.v[i1][i2]
    IN  Array(a.n1, a.n2, E)

\* Variant: sub_data.flatten(order='F'), column-major.
flatten_F(a) ==
    stored([k \in 0..(a.n1 * a.n2 - 1) |-> a.v[k % a.n1][k \div a.n1]])

\* sub_data.flatten(): row-major (C order), the numpy default
flatten(a) ==
    stored([k \in 0..(a.n1 * a.n2 - 1) |-> a.v[k \div a.n2][k % a.n2]])

\* s.reshape(n1, n2): row-major (C order), the numpy default
reshape(s, m, n) ==
    LET E(i1, i2) == s[i1 * n + i2] IN Array(m, n, E)

\* Variant: result = np.zeros_like(data), a new array that is not filled.
np_zeros_like(h, ref) ==
    [heap |-> Append(h, Array(h[ref].n1, h[ref].n2, LAMBDA i, j : Rat(0))),
     ref |-> Len(h) + 1]

\* Variant: result = data, another name for the same array object.
np_alias(h, ref) == [heap |-> h, ref |-> ref]

\* Variant: the copy is made into one output buffer that is kept and used
\* again by every call.
np_copy_to_buffer(h, ref) ==
    IF Len(h) > 1
    THEN [heap |-> [h EXCEPT ![2] = h[ref]], ref |-> 2]
    ELSE [heap |-> Append(h, h[ref]), ref |-> Len(h) + 1]

\* np.copy(data): a new array object with the same samples
np_copy(h, ref) == [heap |-> Append(h, h[ref]), ref |-> Len(h) + 1]

(***************************************************************************)
(* smooth2(data, r1, r2, win) run on heap h, with data the reference of    *)
(* the input array.  None is the window <<>>.  The outcome is the heap     *)
(* after the call, the reference returned (0 when the call raised) and     *)
(* the exception raised ("none" when it returned).                         *)
(***************************************************************************)
None == <<>>

\* Variant: win = [0, n1 - 1, 0, n2 - 1], the last index taken as the end.
default_win_inclusive(n1, n2) == <<0, n1 - 1, 0, n2 - 1>>

\* if win is None: win = [0, n1, 0, n2]
default_win(n1, n2) == <<0, n1, 0, n2>>

smooth2(h, data, r1, r2, win) ==
    LET n1 == h[data].n1
        n2 == h[data].n2
        w  == IF win = None THEN default_win(n1, n2) ELSE win
        s1 == Slice(w[1], w[2], n1)
        s2 == Slice(w[3], w[4], n2)
        sub_data == GetSlice(h[data], s1, s2)
        n1_win == sub_data.n1
        n2_win == sub_data.n2
        N == n1_win * n2_win
        f == flatten(sub_data)
        A == Eye(N)
        R == build_regularization(n1_win, n2_win, r1, r2)
        lhs == MatAdd(A, R)
        s == spsolve(lhs, f)
        smoothed_sub == reshape(s, n1_win, n2_win)
        c == np_copy(h, data)
    IN  IF DiffMatrixRaises(n1_win) \/ DiffMatrixRaises(n2_win)
        THEN [heap |-> h, ref |-> 0, exc |-> "ValueError"]
        ELSE [heap |-> [c.heap EXCEPT ![c.ref] = SetSlice(@, s1, s2, smoothed_sub)],
              ref |-> c.ref, exc |-> "none"]

(***************************************************************************)
(* compute_error(original, smoothed):                                      *)
(*     np.linalg.norm(original - smoothed) / np.linalg.norm(original)      *)
(* A norm is a non-negative real, the root of a sum of squares; it is held *)
(* here by its square, which determines it, and so is the quotient of two  *)
(* norms: the relative error e is held by e * e.  The division is the      *)
(* division of two numpy floats: x / 0 is inf for x > 0 and 0 / 0 is nan   *)
(* (numpy warns; it raises nothing).  Inf is <<1, 0>>.  The outcome is the *)
(* exception raised ("none": no statement of the function raises for two   *)
(* arrays of one shape) and the value returned.                            *)
(***************************************************************************)
Inf == <<1, 0>>

\* Variant: original + smoothed
ArrayAdd(a, b) ==
    LET E(i1, i2) == RAdd(a.v[i1][i2], b.v[i1][i2]) IN Array(a.n1, a.n2, E)

\* original - smoothed, for two arrays of the same shape
ArraySub(a, b) ==
    LET E(i1, i2) == RSub(a.v[i1][i2], b.v[i1][i2]) IN Array(a.n1, a.n2, E)

RECURSIVE SumSquaresFrom(_, _, _)
SumSquaresFrom(f, k, n) ==
    IF k >= n THEN Rat(0)
    ELSE RAdd(RMul(f[k], f[k]), SumSquaresFrom(f, k + 1, n))

\* np.linalg.norm(a), held by its square: the sum of the squares of all samples
np_linalg_norm(a) == SumSquaresFrom(flatten(a), 0, a.n1 * a.n2)

\* x / y for two norms held by their squares
FloatDiv(x, y) ==
    IF x = NaN \/ y = NaN THEN NaN
    ELSE IF IsZero(y) THEN (IF IsZero(x) THEN NaN ELSE Inf)
    ELSE RDiv(x, y)

compute_error(original, smoothed) ==
    [exc |-> "none",
     value |-> FloatDiv(np_linalg_norm(ArraySub(original, smoothed)),
                        np_linalg_norm(original))]

(***************************************************************************)
(* The caller.  It owns one input array (reference data), calls smooth2    *)
(* with coefficients and a window of its choice, may write to the arrays   *)
(* it holds after the call returned, and may drop the result and call      *)
(* again.                                                                  *)
(*   heap    the array objects                                             *)
(*   data    reference of the caller's input array                         *)
(*   result  reference returned by the last call, 0 when there is none     *)
(*   exc     exception raised by the last call, "none" when it returned    *)
(*   call    arguments of the last call: the samples of data when it was   *)
(*           made, r1, r2 and win                                          *)
(*   pc      "ready", "returned", "raised", "written_result",              *)
(*           "written_data" or "measured"                                  *)
(*   rel_error  the last call of compute_error: the samples of its two     *)
(*           arguments, the exception it raised and the value it returned  *)
(***************************************************************************)
VARIABLES heap, data, result, exc, call, pc, rel_error

(***************************************************************************)
(* Two threads that each run one call of smooth2 on the caller's array     *)
(* data, statement by statement, sharing the heap.                         *)
(*   threads  for each thread its position in smooth2 and its locals: the  *)
(*            arguments r1, r2 and win, the view sub_data (the ranges s1   *)
(*            and s2 of data), f, smoothed_sub, result; grid is the input  *)
(*            as it was when the thread entered and exc the exception the  *)
(*            call raised                                                  *)
(***************************************************************************)
VARIABLES threads

(***************************************************************************)
(* The command-line run of smooth2.py (the __main__ block).  It uses the   *)
(* names data, result and rel_error of the script, pc and exc, and:        *)
(*   config       n1, n2, r1, r2, win, efile, plot and save_plot as given  *)
(*                on the command line or at the prompts (efile and         *)
(*                save_plot: whether a path was given)                     *)
(*   input_file   the float32 values of the input file                     *)
(*   output_file  the values written to the output file, <<>> before       *)
(*   written      the files the run has written: "output", "efile",        *)
(*                "save_plot"                                              *)
(*   shown        whether the comparison plot has been shown               *)
(***************************************************************************)
VARIABLES config, input_file, output_file, written, shown

(***************************************************************************)
(* The horizon editor, class HorizonEditor of src/horizon_editor_v3.py:    *)
(* its fields.  A depth array is a function from 0..nx-1 to samples; the   *)
(* editor copies an array wherever it keeps one (z_vals.copy(), the        *)
(* copies of on_release and undo), so no two fields share an array and     *)
(* the fields hold the arrays themselves.                                  *)
(*   nx, x            number of samples, and the x coordinate of each      *)
(*   horizons         name -> depths, for the loaded horizons              *)
(*   original_z       name -> depths as loaded                             *)
(*   history          name -> sequence of depth arrays                     *)
(*   lines            the names of the plotted lines, in the order of the  *)
(*                    dict self.lines                                      *)
(*   selected_line    a name or NoLine (None)                              *)
(*   selected_idx     an index or -1 (None)                                *)
(*   dragging, show_original                                               *)
(*   max_influence_ratio, weight_type, adjust_step                         *)
(*   events           the number of events handled so far (bounds the      *)
(*                    exploration)                                         *)
(*   gesture          where the user is in a drag with the mouse: phase    *)
(*                    "pressed" after a press that selected a point,       *)
(*                    "moved" after motions that follow it, "released"     *)
(*                    after the release that ends them, "undone" after an  *)
(*                    Undo that follows at once, else "idle"; before is    *)
(*                    the depths the selected horizon had at the press     *)
(***************************************************************************)
VARIABLES nx, x, horizons, original_z, history, lines, selected_line,
          selected_idx, dragging, show_original, max_influence_ratio,
          weight_type, adjust_step, events, gesture

editorFields == <<nx, x, horizons, original_z, history, lines, selected_line,
                  selected_idx, dragging, show_original, max_influence_ratio,
                  weight_type, adjust_step>>

editorVars == <<editorFields, events, gesture>>

mainVars == <<config, input_file, output_file, written, shown>>

smoothVars == <<heap, data, result, exc, call, pc, rel_error, threads>>

(***************************************************************************)
(* The overlap correction, main() of src/VelocityModel/horizon_gen.py.     *)
(*   sampling_nx         nx as the user entered it                         *)
(*   horizon_files       the files entered, in order: their name, number   *)
(*                       of columns, x column and depth column             *)
(*   original_horizons   sequence of [x, depth]; entry i + 1 is the        *)
(*                       source's original_horizons[i]                     *)
(*   updated_horizons    the same for updated_horizons                     *)
(*   gen_i               the loop variable i of lines 167 and 178          *)
(*   gen_pc              the line main() is at                             *)
(*   plotted             plot_all_subplots has shown the figure            *)
(*   chopped             file name -> the rows of its _chopped file        *)
(***************************************************************************)
VARIABLES sampling_nx, horizon_files, original_horizons, updated_horizons,
          gen_i, gen_pc, plotted, chopped

genVars == <<sampling_nx, horizon_files, original_horizons, updated_horizons,
             gen_i, gen_pc, plotted, chopped>>

(***************************************************************************)
(* The construction of the system matrix on its own: one call of           *)
(* build_regularization(n1, n2, r1, r2) followed by lines 95-97 of         *)
(* smooth2.                                                                *)
(*   built      the arguments n1, n2, r1, r2, the locals D1, D2 and the    *)
(*              value R returned, the matrix lhs of line 97, and the       *)
(*              exception raised ("none" when none was)                    *)
(*   build_pc   the line the construction is at                            *)
(***************************************************************************)
VARIABLES built, build_pc

buildVars == <<built, build_pc>>

vars == <<smoothVars, mainVars, editorVars, genVars, buildVars>>

\* The variables of the other programs of the module, which the caller's
\* steps leave alone.
notCaller == <<threads, mainVars, editorVars, genVars, buildVars>>

Sizes == 1..MaxN

\* Input grids: the constant grids of zeros and of ones and the grids of ones
\* with one spike 5, of every shape up to MaxN x MaxN, and the 4 x 4 grid of
\* ones with the spike 5 at row 1, column 1 of the documented scenarios.
SpikeGrid(m, n, base, p1, p2, top) ==
    LET E(i1, i2) == IF i1 = p1 /\ i2 = p2 THEN Rat(top) ELSE Rat(base)
    IN  Array(m, n, E)

ScenarioGrid == SpikeGrid(4, 4, 1, 1, 1, 5)

InputGrids ==
    {ScenarioGrid}
    \cup {SpikeGrid(m, n, base, 0, 0, base) : m \in Sizes, n \in Sizes, base \in {0, 1}}
    \cup {SpikeGrid(m, n, 1, p1, p2, 5) :
            m \in Sizes, n \in Sizes, p1 \in 0..(MaxN - 1), p2 \in 0..(MaxN - 1)}

\* Pairs (r1, r2) the caller passes: the defaults, the pairs of the documented
\* scenarios, unequal pairs and negative ones.
Coefficients ==
    ({0, 1, 2} \X {0, 1, 2})
    \cup {<<0, 5>>, <<5, 0>>}
    \cup {<<-1, 0>>, <<0, -1>>, <<-1, -1>>, <<-1, 1>>, <<1, -1>>}

\* A range start:stop is valid for an axis of length n: 0 <= start < stop <= n.
ValidRange(r, n) == 0 <= r[1] /\ r[1] < r[2] /\ r[2] <= n

Ranges(n) == (0..n) \X (0..n)

\* Ranges at and beyond the ends of an axis: negative start, stop beyond the
\* axis, start at or after stop.
EdgeRanges(n) == {-1, 0, n} \X {0, n, n + 1}

ValidWindow(w, m, n) ==
    w = None \/ (ValidRange(<<w[1], w[2]>>, m) /\ ValidRange(<<w[3], w[4]>>, n))

\* Windows the caller passes: every valid window, and the windows with an edge
\* range on one axis and the whole of the other axis.
Windows(m, n) ==
    {None}
    \cup {<<a[1], a[2], b[1], b[2]>> : a \in {r \in Ranges(m) : ValidRange(r, m)},
                                      b \in {r \in Ranges(n) : ValidRange(r, n)}}
    \cup {<<a[1], a[2], 0, n>> : a \in EdgeRanges(m)}
    \cup {<<0, m, b[1], b[2]>> : b \in EdgeRanges(n)}

\* Number of samples of the window that win selects in an m x n array.
WindowCells(w, m, n) ==
    IF w = None THEN m * n
    ELSE LET s1 == Slice(w[1], w[2], m)
             s2 == Slice(w[3], w[4], n)
         IN  (s1.hi - s1.lo) * (s2.hi - s2.lo)

NoCall == [grid |-> Array(0, 0, LAMBDA i, j : NaN), r1 |-> 0, r2 |-> 0, win |-> None]

NoError == [original |-> NoCall.grid, smoothed |-> NoCall.grid, exc |-> "none", value |-> NaN]

Threads == {1, 2}

IdleThread ==
    [pc |-> "idle", grid |-> NoCall.grid, r1 |-> 0, r2 |-> 0, win |-> None,
     s1 |-> Slice(0, 0, 0), s2 |-> Slice(0, 0, 0), f |-> <<>>,
     smoothed_sub |-> NoCall.grid, result |-> 0, exc |-> "none"]

\* No thread runs.
ThreadsIdle == threads = [t \in Threads |-> IdleThread]

NoConfig ==
    [n1 |-> 0, n2 |-> 0, r1 |-> 0, r2 |-> 0, win |-> None,
     efile |-> FALSE, plot |-> FALSE, save_plot |-> FALSE]

\* The script is not run.
MainIdle ==
    /\ config = NoConfig
    /\ input_file = <<>>
    /\ output_file = <<>>
    /\ written = {}
    /\ shown = FALSE

NoLine == "<None>"

\* No editor is open.
NoGesture == [phase |-> "idle", before |-> <<>>]

EditorIdle ==
    /\ gesture = NoGesture
    /\ nx = 0
    /\ x = <<>>
    /\ horizons = <<>>
    /\ original_z = <<>>
    /\ history = <<>>
    /\ lines = <<>>
    /\ selected_line = NoLine
    /\ selected_idx = -1
    /\ dragging = FALSE
    /\ show_original = FALSE
    /\ max_influence_ratio = Rat(0)
    /\ weight_type = "linear"
    /\ adjust_step = Rat(0)
    /\ events = 0

NoMatrix == [rows |-> 0, cols |-> 0, e |-> <<>>]

NoBuild == [n1 |-> 0, n2 |-> 0, r1 |-> 0, r2 |-> 0, D1 |-> NoMatrix,
            D2 |-> NoMatrix, R |-> NoMatrix, lhs |-> NoMatrix, exc |-> "none"]

\* No matrix is under construction.
BuildIdle == built = NoBuild /\ build_pc = "idle"

\* horizon_gen is not running.
GenIdle ==
    /\ sampling_nx = 0
    /\ horizon_files = <<>>
    /\ original_horizons = <<>>
    /\ updated_horizons = <<>>
    /\ gen_i = 0
    /\ gen_pc = "idle"
    /\ plotted = FALSE
    /\ chopped = <<>>

\* The caller of Spec has made no call.
CallerIdle ==
    /\ result = 0
    /\ exc = "none"
    /\ call = NoCall
    /\ pc = "ready"
    /\ rel_error = NoError

Init ==
    /\ heap \in {<<g>> : g \in InputGrids}
    /\ data = 1
    /\ result = 0
    /\ exc = "none"
    /\ call = NoCall
    /\ pc = "ready"
    /\ rel_error = NoError
    /\ ThreadsIdle
    /\ MainIdle
    /\ EditorIdle
    /\ GenIdle
    /\ BuildIdle

\* result = smooth2(data, r1, r2, win)
Call(r1, r2, win) ==
    /\ pc = "ready"
    /\ r1 = 0 \/ r2 = 0 \/ WindowCells(win, heap[data].n1, heap[data].n2) <= MaxCoupled
    /\ LET out == smooth2(heap, data, r1, r2, win)
       IN  /\ heap' = out.heap
           /\ result' = out.ref
           /\ exc' = out.exc
           /\ pc' = IF out.exc = "none" THEN "returned" ELSE "raised"
    /\ call' = [grid |-> heap[data], r1 |-> r1, r2 |-> r2, win |-> win]
    /\ UNCHANGED <<data, rel_error>>
    /\ UNCHANGED notCaller

\* The caller's own write, array[i1, i2] = x, after the call returned.
Poke(a, i1, i2, val) == [a EXCEPT !.v[i1][i2] = val]

WriteResult(i1, i2) ==
    /\ pc = "returned"
    /\ i1 < heap[result].n1 /\ i2 < heap[result].n2
    /\ heap' = [heap EXCEPT ![result] = Poke(@, i1, i2, Rat(9))]
    /\ pc' = "written_result"
    /\ UNCHANGED <<data, result, exc, call, rel_error>>
    /\ UNCHANGED notCaller

WriteData(i1, i2) ==
    /\ pc = "returned"
    /\ i1 < heap[data].n1 /\ i2 < heap[data].n2
    /\ heap' = [heap EXCEPT ![data] = Poke(@, i1, i2, Rat(9))]
    /\ pc' = "written_data"
    /\ UNCHANGED <<data, result, exc, call, rel_error>>
    /\ UNCHANGED notCaller

\* rel_error = compute_error(original, smoothed) on two arrays the caller
\* holds after the call returned.
Measure(original, smoothed) ==
    /\ pc = "returned"
    /\ LET out == compute_error(heap[original], heap[smoothed])
       IN  rel_error' = [original |-> heap[original], smoothed |-> heap[smoothed],
                         exc |-> out.exc, value |-> out.value]
    /\ pc' = "measured"
    /\ UNCHANGED <<heap, data, result, exc, call>>
    /\ UNCHANGED notCaller

\* The caller drops the result; the array object it referred to is collected.
Release ==
    /\ pc \in {"returned", "raised", "measured"}
    /\ heap' = <<heap[data]>>
    /\ result' = 0
    /\ exc' = "none"
    /\ call' = NoCall
    /\ pc' = "ready"
    /\ rel_error' = NoError
    /\ UNCHANGED data
    /\ UNCHANGED notCaller

Smooth2Call ==
    \E r \in Coefficients, win \in Windows(heap[data].n1, heap[data].n2) :
        Call(r[1], r[2], win)

CallerWritesResult == WriteResult(0, 0)

CallerWritesData == WriteData(0, 0)

ComputeErrorCall == \E original \in {data, result}, smoothed \in {data, result} :
    Measure(original, smoothed)

Next ==
    \/ Smooth2Call
    \/ CallerWritesResult
    \/ CallerWritesData
    \/ ComputeErrorCall
    \/ Release

Spec == Init /\ [][Next]_vars

(***************************************************************************)
(* Vocabulary of the properties: the last call and what it returned.       *)
(***************************************************************************)
Given == call.grid

Out == heap[result]

Returned == pc = "returned"

Win == IF call.win = None THEN <<0, Given.n1, 0, Given.n2>> ELSE call.win

Cells(g) == (0..(g.n1 - 1)) \X (0..(g.n2 - 1))

InWin(c) == Win[1] <= c[1] /\ c[1] < Win[2] /\ Win[3] <= c[2] /\ c[2] < Win[4]

WindowIsValid == ValidWindow(call.win, Given.n1, Given.n2)

FullWindow == Win = <<0, Given.n1, 0, Given.n2>>

ValidArgs == WindowIsValid /\ call.r1 >= 0 /\ call.r2 >= 0

At(g, c) == g.v[c[1]][c[2]]

SameShape(a, b) == a.n1 = b.n1 /\ a.n2 = b.n2

\* C1: outside-window invariance.  When smooth2 returns for a valid window
\* and r1, r2 >= 0, the returned grid has the shape of the input and equals
\* the input at every index that is not inside the window.
C1_OutsideWindowInvariance ==
    (Returned /\ ValidArgs) =>
        /\ SameShape(Out, Given)
        /\ \A c \in Cells(Given) : ~InWin(c) => At(Out, c) = At(Given, c)

\* A call on a proper sub-window that changed a sample inside the window.
C1_Witness ==
    /\ Returned /\ ValidArgs
    /\ \E c \in Cells(Given) : ~InWin(c)
    /\ \E c \in Cells(Given) : InWin(c) /\ At(Out, c) /= At(Given, c)

\* C2: identity property.  With r1 = r2 = 0 and a valid window, smooth2
\* returns a grid equal to the input at every index.
C2_Identity ==
    (Returned /\ WindowIsValid /\ call.r1 = 0 /\ call.r2 = 0) => Out = Given

\* A call with r1 = r2 = 0 whose window holds the spike and other samples.
C2_Witness ==
    /\ Returned /\ WindowIsValid /\ call.r1 = 0 /\ call.r2 = 0
    /\ \E c \in Cells(Given), d \in Cells(Given) :
          InWin(c) /\ InWin(d) /\ At(Given, c) /= At(Given, d)

\* Column i2 (row i1) of g holds the same value at every sample.
ColumnIsConstant(g, i2) ==
    \A a \in 0..(g.n1 - 1), b \in 0..(g.n1 - 1) : g.v[a][i2] = g.v[b][i2]

RowIsConstant(g, i1) ==
    \A a \in 0..(g.n2 - 1), b \in 0..(g.n2 - 1) : g.v[i1][a] = g.v[i1][b]

\* C3: direction of r1.  A full-window smooth with r1 > 0 and r2 = 0 acts
\* along axis 1 only: a sample depends only on the input samples with the
\* same second index, so every column that is constant in the input (every
\* column but the spike's) is returned unchanged, and in the 4 x 4 scenario
\* with r1 = 1 it is column 1 that changes.
C3_R1SmoothsAlongAxis1 ==
    (Returned /\ FullWindow /\ call.r1 > 0 /\ call.r2 = 0) =>
        /\ \A c \in Cells(Given) :
              ColumnIsConstant(Given, c[2]) => At(Out, c) = At(Given, c)
        /\ (Given = ScenarioGrid /\ call.r1 = 1) =>
              \A i1 \in 0..3 : Out.v[i1][1] /= Given.v[i1][1]

\* C4: direction of r2.  A full-window smooth with r1 = 0 and r2 > 0 acts
\* along axis 2 only: a sample depends only on the input samples with the
\* same first index, so every row that is constant in the input (every row
\* but the spike's) is returned unchanged, and in the 4 x 4 scenario with
\* r2 = 5 the spike is smeared within row 1.
C4_R2SmoothsAlongAxis2 ==
    (Returned /\ FullWindow /\ call.r1 = 0 /\ call.r2 > 0) =>
        /\ \A c \in Cells(Given) :
              RowIsConstant(Given, c[1]) => At(Out, c) = At(Given, c)
        /\ (Given = ScenarioGrid /\ call.r2 = 5) =>
              \A i2 \in 0..3 : Out.v[1][i2] /= Given.v[1][i2]

\* The input of the last call with every sample outside the window replaced.
OutsideReplaced(val) ==
    LET E(i1, i2) == IF InWin(<<i1, i2>>) THEN Given.v[i1][i2] ELSE val
    IN  Array(Given.n1, Given.n2, E)

\* The grid smooth2 returns for input grid g with the last call's r1, r2, win.
Smoothed(g) ==
    LET out == smooth2(<<g>>, 1, call.r1, call.r2, call.win)
    IN  out.heap[out.ref]

\* C5: window isolation.  For a valid window and r1, r2 >= 0, the grid that
\* agrees with the input inside the window and holds 9 everywhere outside
\* gives the same smoothed values inside the window.  (Two grids that agree
\* inside the window have the same such grid, so they agree with each other.)
C5_WindowIsolation ==
    (Returned /\ ValidArgs) =>
        \A c \in Cells(Given) :
            InWin(c) => At(Smoothed(OutsideReplaced(Rat(9))), c) = At(Out, c)

\* A call on a proper sub-window that holds the spike and smoothed it.
C5_Witness ==
    /\ Returned /\ ValidArgs
    /\ \E c \in Cells(Given) : ~InWin(c)
    /\ \E c \in Cells(Given) : InWin(c) /\ At(Out, c) /= At(Given, c)
    /\ OutsideReplaced(Rat(9)) /= Given
    /\ call.r1 > 0 /\ call.r2 > 0

\* C6: the input grid is never mutated.  A call that returns leaves every
\* sample of the caller's data array as it was and returns another array
\* object; a call that raises leaves data as it was; a later write to the
\* result does not change data, and a later write to data does not change
\* the result.
C6_InputNeverMutated ==
    [][/\ (pc = "ready" /\ pc' = "returned") =>
              (result' /= data' /\ heap'[data'] = heap[data])
       /\ (pc = "ready" /\ pc' = "raised") => heap'[data'] = heap[data]
       /\ pc' = "written_result" => heap'[data'] = heap[data]
       /\ pc' = "written_data" => heap'[result'] = heap[result]]_vars

\* The caller wrote to the result of a call that had changed a sample.
C6_Witness ==
    /\ pc = "written_result"
    /\ heap[data] = Given
    /\ \E c \in Cells(Given) : c /= <<0, 0>> /\ At(Out, c) /= At(Given, c)

\* The window of the last call holds one value only.
WindowIsConstant ==
    \A c \in Cells(Given), d \in Cells(Given) :
        (InWin(c) /\ InWin(d)) => At(Given, c) = At(Given, d)

\* The regularization matrix and the system matrix of the last call.
CallR == build_regularization(Win[2] - Win[1], Win[4] - Win[3], call.r1, call.r2)

CallA == MatAdd(Eye(CallR.rows), CallR)

RECURSIVE RowSumFrom(_, _, _)
RowSumFrom(X, i, j) == IF j >= X.cols THEN 0 ELSE X.e[i][j] + RowSumFrom(X, i, j + 1)

RECURSIVE OffDiagonalAbsSumFrom(_, _, _)
OffDiagonalAbsSumFrom(X, i, j) ==
    IF j >= X.cols THEN 0
    ELSE (IF j = i THEN 0 ELSE Abs(X.e[i][j])) + OffDiagonalAbsSumFrom(X, i, j + 1)

\* C7: constant-grid fixed point.  For a valid window of any shape whose
\* samples all equal one constant and r1, r2 >= 0, every row of R sums to
\* zero and smooth2 returns the window unchanged.
C7_ConstantFixedPoint ==
    (Returned /\ ValidArgs /\ WindowIsConstant) =>
        /\ LET R == CallR
           IN  \A i \in 0..(R.rows - 1) : RowSumFrom(R, i, 0) = 0
        /\ \A c \in Cells(Given) : InWin(c) => At(Out, c) = At(Given, c)

\* A constant window that is not square, penalised along both axes.
C7_Witness ==
    /\ Returned /\ ValidArgs /\ WindowIsConstant
    /\ call.r1 > 0 /\ call.r2 > 0
    /\ Win[2] - Win[1] /= Win[4] - Win[3]
    /\ Win[2] - Win[1] > 1 /\ Win[4] - Win[3] > 1
    /\ At(Given, <<Win[1], Win[3]>>) /= Rat(0)

\* C8: for a valid window (n1w, n2w >= 1) and r1, r2 >= 0 the system
\* matrix A = I + R is symmetric, its off-diagonal entries are <= 0, and
\* each diagonal entry equals 1 plus the sum of the absolute values of the
\* off-diagonal entries of its row (so A is positive definite).
C8_SymmetricPositiveDefinite ==
    (Returned /\ ValidArgs) =>
        LET A == CallA
        IN  \A i \in 0..(A.rows - 1) :
                /\ A.e[i][i] = 1 + OffDiagonalAbsSumFrom(A, i, 0)
                /\ \A j \in 0..(A.cols - 1) :
                      /\ A.e[i][j] = A.e[j][i]
                      /\ j /= i => A.e[i][j] <= 0

\* A system matrix with off-diagonal entries from both penalties.
C8_Witness ==
    /\ Returned /\ ValidArgs
    /\ call.r1 > 0 /\ call.r2 > 0 /\ call.r1 /= call.r2
    /\ LET A == CallA
       IN  \E i \in 0..(A.rows - 1), j \in 0..(A.cols - 1), k \in 0..(A.cols - 1) :
              A.e[i][j] = -call.r1 /\ A.e[i][k] = -call.r2

CallMade == pc \in {"returned", "raised"}

\* C9: negative coefficients are rejected.  A call with r1 < 0 or r2 < 0
\* raises an invalid-parameter error and returns no grid.
C9_NegativeCoefficientRejected ==
    (CallMade /\ (call.r1 < 0 \/ call.r2 < 0)) =>
        (pc = "raised" /\ exc = "InvalidParameterError" /\ result = 0)

\* C10: window validation.  A call with a window that violates
\* 0 <= i1_start < i1_end <= n1 or 0 <= i2_start < i2_end <= n2 raises an
\* error and returns no grid.
C10_InvalidWindowRejected ==
    (CallMade /\ ~WindowIsValid) => (pc = "raised" /\ result = 0)

(***************************************************************************)
(* Vocabulary of the properties of compute_error: its last call.           *)
(***************************************************************************)
Measured == pc = "measured"

AllZero(g) == \A c \in Cells(g) : At(g, c) = Rat(0)

\* Every sample of g is a number.
AllFinite(g) == \A c \in Cells(g) : ~IsNaN(At(g, c))

\* g is a grid of numbers that are not all zero.
NonZeroGrid(g) == AllFinite(g) /\ ~AllZero(g)

\* C11: compute_error on an all-zero original grid fails with a
\* divide-by-zero error: it raises and returns no value (no NaN, no
\* infinity, no number).
C11_ZeroOriginalRaises ==
    (Measured /\ AllZero(rel_error.original)) => rel_error.exc /= "none"

\* C12: solver failure is never silent.  When the solve of a call does not
\* produce a finite result (some sample of the solution is not finite),
\* smooth2 raises a solve error and returns no grid.
C12_SolverFailureNeverSilent == Returned => AllFinite(Out)

\* C13: error metric sanity.  For a grid g of numbers that are not all zero,
\* compute_error(g, g) is 0 and raises nothing, and so is
\* compute_error(g, smooth2(g, 0, 0)).
C13_ErrorMetricSanity ==
    /\ (Measured /\ NonZeroGrid(rel_error.original)
          /\ rel_error.smoothed = rel_error.original) =>
            (rel_error.exc = "none" /\ rel_error.value = Rat(0))
    /\ (pc = "measured" /\ NonZeroGrid(Given)
          /\ call.r1 = 0 /\ call.r2 = 0 /\ call.win = None
          /\ rel_error.original = Given /\ rel_error.smoothed = Out) =>
            (rel_error.exc = "none" /\ rel_error.value = Rat(0))

\* compute_error(g, smooth2(g, 0, 0)) was measured on a grid with a spike.
C13_Witness ==
    /\ pc = "measured" /\ NonZeroGrid(Given)
    /\ call.r1 = 0 /\ call.r2 = 0 /\ call.win = None
    /\ rel_error.original = Given /\ rel_error.smoothed = Out
    /\ \E c \in Cells(Given), d \in Cells(Given) : At(Given, c) /= At(Given, d)
    /\ rel_error.value = Rat(0)

\* The grid smooth2 returns for input grid g and window win with the last
\* call's r1 and r2.
SmoothedIn(g, win) ==
    LET out == smooth2(<<g>>, 1, call.r1, call.r2, win)
    IN  out.heap[out.ref]

\* C16: the result of smooth2 has the dimensions (n1, n2) of the input grid
\* for every valid window and r1, r2 >= 0; and a call without a window
\* returns the grid that the call with win = [0, n1, 0, n2] returns.
C16_SameShapeAndDefaultWindow ==
    (Returned /\ ValidArgs) =>
        /\ Out.n1 = Given.n1 /\ Out.n2 = Given.n2
        /\ DOMAIN Out.v = 0..(Given.n1 - 1)
        /\ \A i1 \in DOMAIN Out.v : DOMAIN Out.v[i1] = 0..(Given.n2 - 1)
        /\ call.win = None => Out = SmoothedIn(Given, <<0, Given.n1, 0, Given.n2>>)

\* A call without a window on a grid that is not square, smoothed along both
\* axes, changed the grid.
C16_Witness ==
    /\ Returned /\ ValidArgs /\ call.win = None
    /\ Given.n1 /= Given.n2
    /\ call.r1 > 0 /\ call.r2 > 0
    /\ Out /= Given

(***************************************************************************)
(* Concurrent use of smooth2.  Each of two threads runs one call on the    *)
(* same array data with arguments of its own, one statement at a time;     *)
(* the statements of the two calls interleave in every order.  A thread    *)
(* shares with the other only the heap: every name of smooth2 is a local.  *)
(*   "idle"     not called                                                 *)
(*   "line89"   entered, before sub_data = data[i1s:i1e, i2s:i2e]          *)
(*   "line92"   before f = sub_data.flatten()                              *)
(*   "line95"   before the assembly of lhs and the solve                   *)
(*   "line102"  before result = np.copy(data)                              *)
(*   "line103"  before result[i1s:i1e, i2s:i2e] = smoothed_sub             *)
(*   "line104"  before return result                                       *)
(*   "returned", "raised"                                                  *)
(***************************************************************************)

\* The grids the two threads share: ones with the spike 5 at (0, 0).
SharedGrids == {SpikeGrid(m, n, 1, 0, 0, 5) : m \in Sizes, n \in Sizes}

\* The arguments a thread passes.
ThreadCoefficients == {<<0, 0>>, <<1, 0>>, <<0, 2>>}

\* No window, the first row, the last column, and an empty range.
ThreadWindows(m, n) == {None, <<0, 1, 0, n>>, <<0, m, n - 1, n>>, <<1, 1, 0, n>>}

\* Lines 84-87: n1, n2 = data.shape; the default window; i1s, i1e, i2s, i2e = win
Enter(t, r1, r2, win) ==
    /\ threads[t].pc = "idle"
    /\ threads' = [threads EXCEPT ![t] =
          [@ EXCEPT !.pc = "line89", !.grid = heap[data],
                    !.r1 = r1, !.r2 = r2, !.win = win]]
    /\ UNCHANGED <<heap, data, result, exc, call, pc, rel_error, mainVars, editorVars, genVars, buildVars>>

\* Lines 89-91: sub_data is a view of data, the ranges of the two axes
TakeSlice(t) ==
    /\ threads[t].pc = "line89"
    /\ LET n1 == heap[data].n1
           n2 == heap[data].n2
           w  == IF threads[t].win = None THEN default_win(n1, n2) ELSE threads[t].win
       IN  threads' = [threads EXCEPT ![t] =
              [@ EXCEPT !.pc = "line92",
                        !.s1 = Slice(w[1], w[2], n1), !.s2 = Slice(w[3], w[4], n2)]]
    /\ UNCHANGED <<heap, data, result, exc, call, pc, rel_error, mainVars, editorVars, genVars, buildVars>>

\* Line 92: f = sub_data.flatten(), a copy of the samples data holds now
Flatten(t) ==
    /\ threads[t].pc = "line92"
    /\ threads' = [threads EXCEPT ![t] =
          [@ EXCEPT !.pc = "line95",
                    !.f = flatten(GetSlice(heap[data], threads[t].s1, threads[t].s2))]]
    /\ UNCHANGED <<heap, data, result, exc, call, pc, rel_error, mainVars, editorVars, genVars, buildVars>>

\* Lines 95-100: A, R, lhs, s = spsolve(lhs, f), smoothed_sub = s.reshape(...)
Solve(t) ==
    /\ threads[t].pc = "line95"
    /\ LET th == threads[t]
           n1_win == th.s1.hi - th.s1.lo
           n2_win == th.s2.hi - th.s2.lo
           A == Eye(n1_win * n2_win)
           R == build_regularization(n1_win, n2_win, th.r1, th.r2)
           s == spsolve(MatAdd(A, R), th.f)
       IN  threads' = [threads EXCEPT ![t] =
              IF DiffMatrixRaises(n1_win) \/ DiffMatrixRaises(n2_win)
              THEN [@ EXCEPT !.pc = "raised", !.exc = "ValueError"]
              ELSE [@ EXCEPT !.pc = "line102",
                             !.smoothed_sub = reshape(s, n1_win, n2_win)]]
    /\ UNCHANGED <<heap, data, result, exc, call, pc, rel_error, mainVars, editorVars, genVars, buildVars>>

\* Line 102: result = np.copy(data)
Copy(t) ==
    /\ threads[t].pc = "line102"
    /\ LET c == np_copy(heap, data)
       IN  /\ heap' = c.heap
           /\ threads' = [threads EXCEPT ![t] = [@ EXCEPT !.pc = "line103", !.result = c.ref]]
    /\ UNCHANGED <<data, result, exc, call, pc, rel_error, mainVars, editorVars, genVars, buildVars>>

\* Line 103: result[i1s:i1e, i2s:i2e] = smoothed_sub
Assign(t) ==
    /\ threads[t].pc = "line103"
    /\ heap' = [heap EXCEPT ![threads[t].result] =
          SetSlice(@, threads[t].s1, threads[t].s2, threads[t].smoothed_sub)]
    /\ threads' = [threads EXCEPT ![t] = [@ EXCEPT !.pc = "line104"]]
    /\ UNCHANGED <<data, result, exc, call, pc, rel_error, mainVars, editorVars, genVars, buildVars>>

\* Line 104: return result
Return(t) ==
    /\ threads[t].pc = "line104"
    /\ threads' = [threads EXCEPT ![t] = [@ EXCEPT !.pc = "returned"]]
    /\ UNCHANGED <<heap, data, result, exc, call, pc, rel_error, mainVars, editorVars, genVars, buildVars>>

ThreadEnters ==
    \E t \in Threads, r \in ThreadCoefficients,
       win \in ThreadWindows(heap[data].n1, heap[data].n2) : Enter(t, r[1], r[2], win)

ThreadTakesSlice == \E t \in Threads : TakeSlice(t)

ThreadFlattens == \E t \in Threads : Flatten(t)

ThreadSolves == \E t \in Threads : Solve(t)

ThreadCopies == \E t \in Threads : Copy(t)

ThreadAssigns == \E t \in Threads : Assign(t)

ThreadReturns == \E t \in Threads : Return(t)

InitConcurrent ==
    /\ heap \in {<<g>> : g \in SharedGrids}
    /\ data = 1
    /\ CallerIdle
    /\ ThreadsIdle
    /\ MainIdle
    /\ EditorIdle
    /\ GenIdle
    /\ BuildIdle

NextConcurrent ==
    \/ ThreadEnters
    \/ ThreadTakesSlice
    \/ ThreadFlattens
    \/ ThreadSolves
    \/ ThreadCopies
    \/ ThreadAssigns
    \/ ThreadReturns

SpecConcurrent == InitConcurrent /\ [][NextConcurrent]_vars

\* The outcome of the call of thread record th when it runs alone.
Alone(th) == smooth2(<<th.grid>>, 1, th.r1, th.r2, th.win)

\* C15: concurrent use.  Whatever the interleaving of the statements of two
\* calls on the same input array, a call that returned holds the grid it
\* returns when run alone, now and while the other call goes on; a call
\* that raised raised what it raises alone; and the input array holds the
\* samples it held when the calls entered.
C15_ConcurrentCallsIsolated ==
    \A t \in Threads :
        LET th == threads[t]
        IN  /\ th.pc = "returned" =>
                  LET a == Alone(th)
                  IN  a.exc = "none" /\ heap[th.result] = a.heap[a.ref]
            /\ th.pc = "raised" => Alone(th).exc = th.exc
            /\ th.pc /= "idle" => heap[data] = th.grid

\* Thread 1 copied data first and has not assigned its window yet, while
\* thread 2, with another overlapping window and other coefficients, copied
\* later and has already returned a grid that differs from the input.
C15_Witness ==
    /\ threads[1].pc = "line103" /\ threads[2].pc = "returned"
    /\ threads[1].result < threads[2].result
    /\ threads[1].win = None /\ threads[2].win /= None
    /\ threads[1].r1 /= threads[2].r1
    /\ heap[threads[2].result] /= heap[data]
    /\ threads[1].smoothed_sub /= GetSlice(heap[data], threads[1].s1, threads[1].s2)

(***************************************************************************)
(* The command-line run, lines 205-259 of smooth2.py.  config is what      *)
(* argparse or the prompts of interactive_mode gave.  An exception that    *)
(* nothing catches ends the run: pc is then "raised" followed by the line  *)
(* that raised.                                                            *)
(*   "line233"  before data = np.fromfile(...).reshape((n1, n2))           *)
(*   "line236"  before the test of data.size                               *)
(*   "line239"  before result = smooth2(...)                               *)
(*   "line240"  before result.astype(np.float32).tofile(output)            *)
(*   "line243"  before the error report                                    *)
(*   "line252"  before the plot                                            *)
(*   "done", "raised233", "raised236", "raised239"                         *)
(***************************************************************************)

\* The shape a.reshape((n1, n2)) gives an array of size values: a dimension
\* -1 is inferred from the other one; <<>> when reshape raises ValueError.
reshape_shape(size, n1, n2) ==
    IF n1 < -1 \/ n2 < -1 \/ (n1 = -1 /\ n2 = -1) THEN <<>>
    ELSE IF n1 = -1
         THEN (IF n2 > 0 /\ size % n2 = 0 THEN <<size \div n2, n2>> ELSE <<>>)
    ELSE IF n2 = -1
         THEN (IF n1 > 0 /\ size % n1 = 0 THEN <<n1, size \div n1>> ELSE <<>>)
    ELSE IF n1 * n2 = size THEN <<n1, n2>> ELSE <<>>

\* Variant: np.resize(values, (n1, n2)), which repeats or drops values to
\* fill the shape and raises for a negative dimension only.
fromfile_resize(values, n1, n2) ==
    IF n1 < 0 \/ n2 < 0 THEN [exc |-> "ValueError", array |-> Array(0, 0, LAMBDA i, j : NaN)]
    ELSE [exc |-> "none",
          array |-> Array(n1, n2, LAMBDA i, j :
                       IF Len(values) = 0 THEN Rat(0)
                       ELSE values[((i * n2 + j) % Len(values)) + 1])]

\* np.fromfile(input, dtype=np.float32).reshape((n1, n2)): the values of the
\* file in row-major order
fromfile_reshape(values, n1, n2) ==
    LET shape == reshape_shape(Len(values), n1, n2)
    IN  IF shape = <<>>
        THEN [exc |-> "ValueError", array |-> Array(0, 0, LAMBDA i, j : NaN)]
        ELSE [exc |-> "none",
              array |-> reshape([k \in 0..(Len(values) - 1) |-> values[k + 1]],
                                shape[1], shape[2])]

\* Input files: count values 1 with the spike 5 first.
FileOf(count) == [k \in 1..count |-> IF k = 1 THEN Rat(5) ELSE Rat(1)]

MainCounts == 0..(MaxN * MaxN + 1)

MainDims == -1..MaxN

MainCoefficients == {<<0, 0>>, <<0, 1>>}

Configs ==
    {[n1 |-> a, n2 |-> b, r1 |-> r[1], r2 |-> r[2], win |-> None,
      efile |-> e, plot |-> p, save_plot |-> sp] :
        a \in MainDims, b \in MainDims, r \in MainCoefficients,
        e \in BOOLEAN, p \in BOOLEAN, sp \in BOOLEAN}

notMain == <<call, threads, editorVars, genVars, buildVars>>

InitMain ==
    /\ config \in Configs
    /\ input_file \in {FileOf(count) : count \in MainCounts}
    /\ output_file = <<>>
    /\ written = {}
    /\ shown = FALSE
    /\ heap = <<>>
    /\ data = 0
    /\ result = 0
    /\ exc = "none"
    /\ rel_error = NoError
    /\ pc = "line233"
    /\ call = NoCall
    /\ ThreadsIdle
    /\ EditorIdle
    /\ GenIdle
    /\ BuildIdle

\* Lines 233-234
Load ==
    /\ pc = "line233"
    /\ LET out == fromfile_reshape(input_file, config.n1, config.n2)
       IN  IF out.exc /= "none"
           THEN /\ pc' = "raised233"
                /\ exc' = out.exc
                /\ UNCHANGED <<heap, data>>
           ELSE /\ heap' = <<out.array>>
                /\ data' = 1
                /\ pc' = "line236"
                /\ UNCHANGED exc
    /\ UNCHANGED <<result, rel_error, config, input_file, output_file, written, shown>>
    /\ UNCHANGED notMain

\* Lines 236-237: if data.size != n1 * n2: raise ValueError(...)
CheckSize ==
    /\ pc = "line236"
    /\ IF heap[data].n1 * heap[data].n2 /= config.n1 * config.n2
       THEN pc' = "raised236" /\ exc' = "ValueError"
       ELSE pc' = "line239" /\ UNCHANGED exc
    /\ UNCHANGED <<heap, data, result, rel_error>>
    /\ UNCHANGED <<config, input_file, output_file, written, shown>>
    /\ UNCHANGED notMain

\* Line 239: result = smooth2(data, r1=..., r2=..., win=config.get("win"))
Smooth ==
    /\ pc = "line239"
    /\ LET out == smooth2(heap, data, config.r1, config.r2, config.win)
       IN  /\ heap' = out.heap
           /\ result' = out.ref
           /\ exc' = out.exc
           /\ pc' = IF out.exc = "none" THEN "line240" ELSE "raised239"
    /\ UNCHANGED <<data, rel_error, config, input_file, output_file, written, shown>>
    /\ UNCHANGED notMain

\* Line 240: result.astype(np.float32).tofile(output), row-major
WriteOutput ==
    /\ pc = "line240"
    /\ output_file' = LET f == flatten(heap[result])
                      IN  [k \in 1..(heap[result].n1 * heap[result].n2) |-> f[k - 1]]
    /\ written' = written \cup {"output"}
    /\ pc' = "line243"
    /\ UNCHANGED <<heap, data, result, exc, rel_error, config, input_file, shown>>
    /\ UNCHANGED notMain

\* Lines 243-249: the relative error, written to efile when one is given
Report ==
    /\ pc = "line243"
    /\ IF config.efile
       THEN /\ LET out == compute_error(heap[data], heap[result])
               IN  rel_error' = [original |-> heap[data], smoothed |-> heap[result],
                                 exc |-> out.exc, value |-> out.value]
            /\ written' = written \cup {"efile"}
       ELSE UNCHANGED <<rel_error, written>>
    /\ pc' = "line252"
    /\ UNCHANGED <<heap, data, result, exc, config, input_file, output_file, shown>>
    /\ UNCHANGED notMain

\* Lines 252-256: plot_comparison saves the figure when a path is given and
\* shows it
Plot ==
    /\ pc = "line252"
    /\ IF config.plot \/ config.save_plot
       THEN /\ written' = IF config.save_plot THEN written \cup {"save_plot"} ELSE written
            /\ shown' = TRUE
       ELSE UNCHANGED <<written, shown>>
    /\ pc' = "done"
    /\ UNCHANGED <<heap, data, result, exc, rel_error, config, input_file, output_file>>
    /\ UNCHANGED notMain

NextMain ==
    \/ Load
    \/ CheckSize
    \/ Smooth
    \/ WriteOutput
    \/ Report
    \/ Plot

SpecMain == InitMain /\ [][NextMain]_vars

\* The number of values of the input file differs from n1 * n2.
SizeMismatch == Len(input_file) /= config.n1 * config.n2

\* C17: grid size check of the command-line run.  When the number of
\* float32 values of the input file differs from n1 * n2, the run gets no
\* further than the size test: it stops with a ValueError at the load or at
\* the test, before smooth2 is called, so no result exists and no output
\* file, error file or plot is written or shown.
C17_SizeMismatchStopsRun ==
    SizeMismatch =>
        /\ pc \in {"line233", "line236", "raised233", "raised236"}
        /\ pc \in {"raised233", "raised236"} => exc = "ValueError"
        /\ result = 0
        /\ Len(heap) <= 1
        /\ written = {} /\ output_file = <<>> /\ ~shown
        /\ rel_error = NoError

\* A run with a file of 3 values for a 2 x 2 grid, with an error file and
\* plots asked for, has stopped.
C17_Witness ==
    /\ SizeMismatch
    /\ pc = "raised233"
    /\ Len(input_file) = 3 /\ config.n1 = 2 /\ config.n2 = 2
    /\ config.efile /\ config.plot /\ config.save_plot


(***************************************************************************)
(* The horizon editor, src/horizon_editor_v3.py.  Each handler of          *)
(* HorizonEditor is one action; the mouse and key events, the files the    *)
(* user picks and the values of the parameter window are its inputs.       *)
(***************************************************************************)
EditorNx == 4     \* samples per horizon
MaxEvents == 6    \* events of one run of the editor

DefaultDx == 100  \* __init__, dx
DefaultDz == 25   \* __init__, dz
ClickTolerance == 50   \* on_click, dist < 50

RLess(a, b) == ~IsNaN(a) /\ ~IsNaN(b) /\ a[1] * b[2] < b[1] * a[2]

RLeq(a, b) == ~IsNaN(a) /\ ~IsNaN(b) /\ a[1] * b[2] <= b[1] * a[2]

RAbs(a) == <<Abs(a[1]), a[2]>>

\* The weights of the gauss and sigmoid types are floats of np.exp; the
\* model keeps np.exp to two decimals.
Precision == 100

\* Precision times the terms k, k+1, ... of the series of exp(n / d), for
\* n / d >= 0, each cut to an integer; term is the term k.
RECURSIVE ExpTerms(_, _, _, _)
ExpTerms(n, d, k, term) ==
    IF term = 0 THEN 0
    ELSE term + ExpTerms(n, d, k + 1, (term * n) \div (d * (k + 1)))

np_exp(a) ==
    IF IsNaN(a) THEN NaN
    ELSE IF a[1] >= 0 THEN Norm(ExpTerms(a[1], a[2], 0, Precision), Precision)
    ELSE Norm((Precision * Precision) \div ExpTerms(-a[1], a[2], 0, Precision),
              Precision)

\* A float cut to the model's two decimals.
Rounded(a) == IF IsNaN(a) THEN NaN ELSE Norm((a[1] * Precision) \div a[2], Precision)

\* Python's max(0, v): v if v > 0, otherwise 0 (also for nan).
max0(v) == IF RLess(Rat(0), v) THEN v ELSE Rat(0)

\* get_weight with every distance weighted 1, for comparison.
get_weight_flat(type, norm_dist) == Rat(1)

\* Lines 236-246.
get_weight(type, norm_dist) ==
    IF RLess(Rat(1), norm_dist) THEN Rat(0)
    ELSE IF type = "linear" THEN max0(RSub(Rat(1), norm_dist))
    ELSE IF type = "gauss"
    THEN np_exp(RDiv(RNeg(RMul(norm_dist, norm_dist)), <<9, 50>>))
    ELSE IF type = "sigmoid"
    THEN Rounded(RDiv(Rat(1),
                      RAdd(Rat(1), np_exp(RMul(Rat(12), RSub(norm_dist, <<1, 2>>))))))
    ELSE max0(RSub(Rat(1), norm_dist))

\* A .dat file: its base name, its number of columns and, row by row, the
\* value of its second column (of its only column when it has one).
\* np.loadtxt returns a 2-D array for a file of several rows and several
\* columns and a 1-D array otherwise.
loadtxt_shape(file) ==
    IF Len(file.z) = 0 THEN <<0>>
    ELSE IF Len(file.z) = 1 THEN <<file.ncols>>
    ELSE IF file.ncols = 1 THEN <<Len(file.z)>>
    ELSE <<Len(file.z), file.ncols>>

\* f with f[k] = v, k added to the domain if new (a dict assignment).
Put(f, k, v) == [n \in (DOMAIN f) \cup {k} |-> IF n = k THEN v ELSE f[n]]

InSeq(s, e) == \E k \in 1..Len(s) : s[k] = e

\* The dicts an add_horizon call works on: ed.names holds the keys of
\* self.horizons in the order of the dict.
Dicts == [horizons |-> horizons, original_z |-> original_z,
          history |-> history, names |-> lines]

\* add_horizon without the test of the length, for comparison.
add_horizon_any_length(ed, file) ==
    LET shape == loadtxt_shape(file)
        z_vals == [k \in 0..(Len(file.z) - 1) |-> file.z[k + 1]]
    IN  IF Len(shape) < 2 THEN ed
        ELSE IF shape[2] /= 2 THEN ed
        ELSE [horizons |-> Put(ed.horizons, file.name, z_vals),
              original_z |-> Put(ed.original_z, file.name, z_vals),
              history |-> Put(ed.history, file.name, <<z_vals>>),
              names |-> IF InSeq(ed.names, file.name) THEN ed.names
                        ELSE Append(ed.names, file.name)]

\* add_horizon that starts the history as an empty list, for comparison.
add_horizon_no_history(ed, file) ==
    LET shape == loadtxt_shape(file)
        z_vals == [k \in 0..(Len(file.z) - 1) |-> file.z[k + 1]]
    IN  IF Len(shape) < 2 THEN ed
        ELSE IF shape[2] /= 2 THEN ed
        ELSE IF Len(file.z) /= nx THEN ed
        ELSE [horizons |-> Put(ed.horizons, file.name, z_vals),
              original_z |-> Put(ed.original_z, file.name, z_vals),
              history |-> Put(ed.history, file.name, <<>>),
              names |-> IF InSeq(ed.names, file.name) THEN ed.names
                        ELSE Append(ed.names, file.name)]

\* Lines 136-152.  data.shape[1] of a 1-D array raises IndexError, which
\* line 151 catches: nothing is loaded.
add_horizon(ed, file) ==
    LET shape == loadtxt_shape(file)
        z_vals == [k \in 0..(Len(file.z) - 1) |-> file.z[k + 1]]
    IN  IF Len(shape) < 2 THEN ed
        ELSE IF shape[2] /= 2 THEN ed
        ELSE IF Len(file.z) /= nx THEN ed
        ELSE [horizons |-> Put(ed.horizons, file.name, z_vals),
              original_z |-> Put(ed.original_z, file.name, z_vals),
              history |-> Put(ed.history, file.name, <<z_vals>>),
              names |-> IF InSeq(ed.names, file.name) THEN ed.names
                        ELSE Append(ed.names, file.name)]

\* Line 132-133: add_horizon of each path, in order.
RECURSIVE add_horizons(_, _, _)
add_horizons(ed, paths, k) ==
    IF k > Len(paths) THEN ed
    ELSE add_horizons(add_horizon(ed, paths[k]), paths, k + 1)

\* Lines 154-168: a line for every horizon, self.lines[name] = line; names
\* holds the keys of self.horizons, the result the keys of self.lines.
draw_horizons(ls, names) ==
    ls \o SelectSeq(names, LAMBDA n : ~InSeq(ls, n))

\* Lines 130-134.
load_horizon_dialog(paths) ==
    LET ed == add_horizons(Dicts, paths, 1)
    IN  /\ horizons' = ed.horizons
        /\ original_z' = ed.original_z
        /\ history' = ed.history
        /\ lines' = draw_horizons(lines, ed.names)
        /\ UNCHANGED <<nx, x, selected_line, selected_idx, dragging, show_original,
                       max_influence_ratio, weight_type, adjust_step>>

\* np.argmin(np.abs(self.x - xdata)): the first index of the least distance.
argmin_abs(xdata) ==
    CHOOSE k \in 0..(nx - 1) :
        /\ \A j \in 0..(nx - 1) : RLeq(RAbs(RSub(x[k], xdata)), RAbs(RSub(x[j], xdata)))
        /\ \A j \in 0..(k - 1) : RLess(RAbs(RSub(x[k], xdata)), RAbs(RSub(x[j], xdata)))

\* Lines 173-183: the loop over self.lines from line k on; best is
\* <<selected_line, min_dist>>, min_dist being float("inf") as long as no
\* line is selected.
RECURSIVE closest_line(_, _, _, _)
closest_line(k, idx, ydata, best) ==
    IF k > Len(lines) THEN best[1]
    ELSE LET name == lines[k]
             dist == RAbs(RSub(horizons[name][idx], ydata))
         IN  IF (best[1] = NoLine \/ RLess(dist, best[2]))
                /\ RLess(dist, Rat(ClickTolerance))
             THEN closest_line(k + 1, idx, ydata, <<name, dist>>)
             ELSE closest_line(k + 1, idx, ydata, best)

\* Lines 170-199.
on_click(inaxes, xdata, ydata) ==
    IF ~inaxes THEN UNCHANGED editorFields
    ELSE LET idx == argmin_abs(xdata)
             name == closest_line(1, idx, ydata, <<NoLine, NaN>>)
         IN  /\ selected_line' = name
             /\ selected_idx' = IF name = NoLine THEN -1 ELSE idx
             /\ dragging' = (name /= NoLine)
             /\ UNCHANGED <<nx, x, horizons, original_z, history, lines,
                            show_original, max_influence_ratio, weight_type,
                            adjust_step>>

\* on_drag that moves the whole horizon, for comparison.
dragged_flat(horizon, idx, new_z) ==
    [i \in 0..(nx - 1) |-> RAdd(horizon[i], RSub(new_z, horizon[idx]))]

\* Lines 207-221: the depths of the dragged horizon.
dragged(horizon, idx, new_z) ==
    LET dz == RSub(new_z, horizon[idx])
        influence_range == RMul(max_influence_ratio, RSub(x[nx - 1], x[0]))
        is_endpoint == idx = 0 \/ idx = nx - 1
        moved(i) ==
            LET dx_abs == RAbs(RSub(x[i], x[idx]))
                w == IF is_endpoint /\ i = idx THEN Rat(1)
                     ELSE get_weight(weight_type, FloatDiv(dx_abs, influence_range))
            IN  IF RLeq(dx_abs, influence_range)
                THEN RAdd(horizon[i], RMul(dz, w))
                ELSE horizon[i]
    IN  [i \in 0..(nx - 1) |-> moved(i)]

\* on_drag without the test of self.dragging, for comparison.
on_drag_any_time(inaxes, ydata) ==
    IF selected_line = NoLine \/ ~inaxes THEN UNCHANGED editorFields
    ELSE /\ horizons' = [horizons EXCEPT ![selected_line] =
                             stored(dragged(@, selected_idx, ydata))]
         /\ UNCHANGED <<nx, x, original_z, history, lines, selected_line,
                        selected_idx, dragging, show_original,
                        max_influence_ratio, weight_type, adjust_step>>

\* Lines 201-224.  ydata is a number whenever the pointer is in the axes.
on_drag(inaxes, ydata) ==
    IF ~dragging \/ selected_line = NoLine \/ ~inaxes THEN UNCHANGED editorFields
    ELSE /\ horizons' = [horizons EXCEPT ![selected_line] =
                             stored(dragged(@, selected_idx, ydata))]
         /\ UNCHANGED <<nx, x, original_z, history, lines, selected_line,
                        selected_idx, dragging, show_original,
                        max_influence_ratio, weight_type, adjust_step>>

\* Lines 226-234.
on_release ==
    /\ IF selected_line /= NoLine /\ selected_idx /= -1
       THEN history' = [history EXCEPT ![selected_line] =
                            Append(@, horizons[selected_line])]
       ELSE UNCHANGED history
    /\ dragging' = FALSE
    /\ UNCHANGED <<nx, x, horizons, original_z, lines, selected_line,
                   selected_idx, show_original, max_influence_ratio,
                   weight_type, adjust_step>>

\* The 'y' branch moving the whole horizon, for comparison.
stepped_all(horizon, idx, direction) ==
    [i \in 0..(nx - 1) |-> RSub(horizon[i], RMul(Rat(direction), adjust_step))]

\* Line 359: horizon[self.selected_idx] -= direction * self.adjust_step
stepped(horizon, idx, direction) ==
    [horizon EXCEPT ![idx] = RSub(@, RMul(Rat(direction), adjust_step))]

\* move_selected_point without the test of the range of new_idx, for
\* comparison.
move_selected_point_any_index(direction, axis) ==
    IF selected_line = NoLine \/ selected_idx = -1 THEN UNCHANGED editorFields
    ELSE IF axis = "y"
    THEN /\ horizons' = [horizons EXCEPT ![selected_line] =
                             stepped(@, selected_idx, direction)]
         /\ UNCHANGED <<nx, x, original_z, history, lines, selected_line,
                        selected_idx, dragging, show_original,
                        max_influence_ratio, weight_type, adjust_step>>
    ELSE /\ selected_idx' = selected_idx + direction
         /\ UNCHANGED <<nx, x, horizons, original_z, history, lines,
                        selected_line, dragging, show_original,
                        max_influence_ratio, weight_type, adjust_step>>

\* Lines 354-369.
move_selected_point(direction, axis) ==
    IF selected_line = NoLine \/ selected_idx = -1 THEN UNCHANGED editorFields
    ELSE IF axis = "y"
    THEN /\ horizons' = [horizons EXCEPT ![selected_line] =
                             stepped(@, selected_idx, direction)]
         /\ UNCHANGED <<nx, x, original_z, history, lines, selected_line,
                        selected_idx, dragging, show_original,
                        max_influence_ratio, weight_type, adjust_step>>
    ELSE /\ selected_idx' = IF axis = "x" /\ 0 <= selected_idx + direction
                                          /\ selected_idx + direction < nx
                            THEN selected_idx + direction
                            ELSE selected_idx
         /\ UNCHANGED <<nx, x, horizons, original_z, history, lines,
                        selected_line, dragging, show_original,
                        max_influence_ratio, weight_type, adjust_step>>

\* Lines 117-120: the bindings of the arrow keys.
Keys == {"Up", "Down", "Left", "Right"}

key_binding(key) ==
    IF key = "Up" THEN move_selected_point(1, "y")
    ELSE IF key = "Down" THEN move_selected_point(-1, "y")
    ELSE IF key = "Left" THEN move_selected_point(-1, "x")
    ELSE move_selected_point(1, "x")

\* Lines 294-305.
undo ==
    IF selected_line = NoLine THEN UNCHANGED editorFields
    ELSE IF Len(history[selected_line]) <= 1 THEN UNCHANGED editorFields
    ELSE LET popped == SubSeq(history[selected_line], 1,
                              Len(history[selected_line]) - 1)
         IN  /\ history' = [history EXCEPT ![selected_line] = popped]
             /\ horizons' = [horizons EXCEPT ![selected_line] = popped[Len(popped)]]
             /\ lines' = draw_horizons(lines, lines)
             /\ UNCHANGED <<nx, x, original_z, selected_line, selected_idx,
                            dragging, show_original, max_influence_ratio,
                            weight_type, adjust_step>>

\* Lines 307-310.
toggle_original ==
    /\ show_original' = ~show_original
    /\ lines' = draw_horizons(lines, lines)
    /\ UNCHANGED <<nx, x, horizons, original_z, history, selected_line,
                   selected_idx, dragging, max_influence_ratio, weight_type,
                   adjust_step>>

\* Lines 267-277.  step is None when the text of the entry is no number:
\* self.step_var.get() raises, after the other two fields were assigned.
apply_settings(ratio, type, step) ==
    /\ max_influence_ratio' = ratio
    /\ weight_type' = type
    /\ adjust_step' = IF step = None THEN adjust_step ELSE step
    /\ UNCHANGED <<nx, x, horizons, original_z, history, lines, selected_line,
                   selected_idx, dragging, show_original>>

(***************************************************************************)
(* The editor's run: what the user does.                                   *)
(***************************************************************************)
FlatProfile(n, depth) == [k \in 1..n |-> Rat(depth)]

EditorFiles ==
    {[name |-> "top", ncols |-> 2, z |-> FlatProfile(EditorNx, 100)],
     [name |-> "base", ncols |-> 2, z |-> FlatProfile(EditorNx, 120)],
     [name |-> "long", ncols |-> 2, z |-> FlatProfile(EditorNx + 1, 100)],
     [name |-> "wide", ncols |-> 3, z |-> FlatProfile(EditorNx, 100)],
     [name |-> "column", ncols |-> 1, z |-> FlatProfile(EditorNx, 100)],
     [name |-> "row", ncols |-> 2, z |-> FlatProfile(1, 100)]}

EditorPaths ==
    {<<>>} \cup {<<f>> : f \in EditorFiles}
           \cup {<<f, g>> : f \in {h \in EditorFiles : h.name = "long"},
                            g \in {h \in EditorFiles : h.name = "top"}}

ClickX == {Rat(0), Rat(DefaultDx + DefaultDx \div 2), Rat((EditorNx - 1) * DefaultDx)}

ClickY == {Rat(110), Rat(125), Rat(500)}

DragY == {Rat(90), Rat(130)}

SettingsChoices ==
    {<<<<1, 2>>, "linear", Rat(10)>>,
     <<<<1, 2>>, "gauss", <<5, 2>>>>,
     <<<<1, 2>>, "sigmoid", None>>}

\* Lines 45-66.
InitEditor ==
    /\ nx = EditorNx
    /\ x = [k \in 0..(EditorNx - 1) |-> Rat(k * DefaultDx)]
    /\ horizons = <<>>
    /\ original_z = <<>>
    /\ history = <<>>
    /\ lines = <<>>
    /\ selected_line = NoLine
    /\ selected_idx = -1
    /\ dragging = FALSE
    /\ show_original = FALSE
    /\ max_influence_ratio = <<1, 10>>
    /\ weight_type = "linear"
    /\ adjust_step = Norm(DefaultDz, 10)
    /\ events = 0
    /\ gesture = NoGesture
    /\ heap = <<>>
    /\ data = 0
    /\ CallerIdle
    /\ ThreadsIdle
    /\ MainIdle
    /\ GenIdle
    /\ BuildIdle

notEditor == <<smoothVars, mainVars, genVars, buildVars>>

\* One more event is handled.
Handled == events < MaxEvents /\ events' = events + 1 /\ UNCHANGED <<notEditor, gesture>>

LoadFiles == Handled /\ \E paths \in EditorPaths : load_horizon_dialog(paths)

MouseClick ==
    /\ Handled
    /\ \E inaxes \in BOOLEAN, xdata \in ClickX, ydata \in ClickY :
           on_click(inaxes, xdata, ydata)

MouseDrag == Handled /\ \E inaxes \in BOOLEAN, ydata \in DragY : on_drag(inaxes, ydata)

MouseRelease == Handled /\ on_release

KeyPress == Handled /\ \E key \in Keys : key_binding(key)

UndoPressed == Handled /\ undo

ToggleOriginal == Handled /\ toggle_original

ApplySettings == Handled /\ \E s \in SettingsChoices : apply_settings(s[1], s[2], s[3])

NextEditor ==
    \/ LoadFiles
    \/ MouseClick
    \/ MouseDrag
    \/ MouseRelease
    \/ KeyPress
    \/ UndoPressed
    \/ ToggleOriginal
    \/ ApplySettings

SpecEditor == InitEditor /\ [][NextEditor]_vars

EditorTypeOK ==
    /\ DOMAIN horizons = DOMAIN original_z
    /\ DOMAIN horizons = DOMAIN history
    /\ DOMAIN horizons = {lines[k] : k \in 1..Len(lines)}


PointSelected == selected_line /= NoLine /\ selected_idx /= -1

\* The step that handles a press of the key.
KeyStep(key) == Handled /\ key_binding(key)

\* The depths the editor holds: the horizons, their originals, their histories.
depthVars == <<horizons, original_z, history>>

\* C18: with a point selected, a press of Up lowers the depth at the selected
\* index of the selected horizon by exactly adjust_step and a press of Down
\* raises it by exactly adjust_step, every other depth of that horizon and
\* every other horizon staying as they were; a press of Left or Right changes
\* no depth at all.  Neither changes an original or a history.
C18_HotKeysFrame ==
    [][PointSelected =>
         /\ KeyStep("Up") =>
               /\ horizons' = [horizons EXCEPT ![selected_line][selected_idx] =
                                                   RSub(@, adjust_step)]
               /\ UNCHANGED <<original_z, history>>
         /\ KeyStep("Down") =>
               /\ horizons' = [horizons EXCEPT ![selected_line][selected_idx] =
                                                   RAdd(@, adjust_step)]
               /\ UNCHANGED <<original_z, history>>
         /\ (KeyStep("Left") \/ KeyStep("Right")) => UNCHANGED depthVars]_vars

\* A key has moved the selected point of a horizon by the default step, which
\* no drag of the run does, and nothing else of the horizon has moved.
C18_Witness ==
    /\ PointSelected
    /\ adjust_step = <<5, 2>>
    /\ horizons[selected_line] =
           [original_z[selected_line] EXCEPT ![selected_idx] = RSub(@, adjust_step)]

\* The x coordinates as __init__ computes them: np.arange(nx) * dx.
ConstructedX == [k \in 0..(EditorNx - 1) |-> Rat(k * DefaultDx)]

\* C19: whatever events the editor has handled, the x coordinates are those
\* of the construction, nx is the constructed nx, and every loaded horizon
\* (its original and every state of its history too) has nx depths.
C19_XFixedAndLengths ==
    /\ nx = EditorNx
    /\ x = ConstructedX
    /\ \A name \in DOMAIN horizons :
          /\ DOMAIN horizons[name] = 0..(nx - 1)
          /\ DOMAIN original_z[name] = 0..(nx - 1)
          /\ \A k \in 1..Len(history[name]) : DOMAIN history[name][k] = 0..(nx - 1)

\* A horizon was loaded, edited, released, the originals shown and the
\* settings applied.
C19_Witness ==
    /\ show_original
    /\ weight_type /= "linear"
    /\ \E name \in DOMAIN horizons :
          /\ horizons[name] /= original_z[name]
          /\ Len(history[name]) > 1


(***************************************************************************)
(* The overlap correction of src/VelocityModel/horizon_gen.py.  A column   *)
(* of a file is a sequence, row k + 1 of the model being row k of the      *)
(* source; original_horizons[i + 1] is the source's original_horizons[i].  *)
(***************************************************************************)
MaxHorizons == 3   \* most files of one run

\* The x column of a well-formed file, and the depths a file may hold.
GenX == <<Rat(0), Rat(100)>>

GenDepths == {Rat(100), <<100001, 1000>>, Rat(110)}

\* Lines 50-59.  data.shape[1] of a 1-D array raises IndexError, which line
\* 57 catches; every failure returns (None, None).
load_horizon_file(file, expected_length) ==
    LET shape == loadtxt_shape(file)
    IN  IF Len(shape) < 2 THEN None
        ELSE IF shape[1] /= expected_length \/ shape[2] /= 2 THEN None
        ELSE [x |-> file.x, depth |-> file.z]

\* numpy.isclose with the default rtol = 1e-05 and atol = 1e-08:
\* |a - b| <= atol + rtol * |b|.  (A difference of 1 or more against a
\* tolerance below 1 is decided before the cross-multiplication.)
np_isclose(a, b) ==
    LET d == RAbs(RSub(a, b))
        tol == RAdd(<<1, 100000000>>, RMul(<<1, 100000>>, RAbs(b)))
    IN  IF RLeq(Rat(1), d) /\ RLess(tol, Rat(1)) THEN FALSE ELSE RLeq(d, tol)

np_allclose(a, b) ==
    /\ Len(a) = Len(b)
    /\ \A k \in 1..Len(a) : np_isclose(a[k], b[k])

\* The loop of lines 150-156 from file k on: the horizons appended, and
\* whether main() returned at line 154.
RECURSIVE load_all(_, _, _)
load_all(files, k, loaded) ==
    IF k > Len(files) THEN [horizons |-> loaded, returned |-> FALSE]
    ELSE LET h == load_horizon_file(files[k], sampling_nx)
         IN  IF h = None THEN [horizons |-> loaded, returned |-> TRUE]
             ELSE load_all(files, k + 1, Append(loaded, h))

\* Line 168 reading the original instead of the corrected previous horizon,
\* for comparison.
prev_depth_original(original, updated, i) == original[i].depth

\* Line 168: prev_depth = updated_horizons[i - 1][1]
prev_depth_of(original, updated, i) == updated[i].depth

\* Line 171: np.where(curr_depth < prev_depth, prev_depth, curr_depth)
np_where_less(curr_depth, prev_depth) ==
    [k \in 1..Len(curr_depth) |->
        IF RLess(curr_depth[k], prev_depth[k]) THEN prev_depth[k] ELSE curr_depth[k]]

\* '%.6f' of np.savetxt: the value rounded to six decimals.
fmt_6f(v) ==
    LET whole == v[1] \div v[2]
        rest == v[1] % v[2]
    IN  Norm(whole * 1000000 + (2 * rest * 1000000 + v[2]) \div (2 * v[2]), 1000000)

\* Lines 88-95: the _chopped files after the call.
save_modified_horizon(files, x_vals, original_depth, modified_depth, name) ==
    IF ~np_allclose(original_depth, modified_depth)
    THEN Put(files, name, [k \in 1..Len(x_vals) |->
                              <<fmt_6f(x_vals[k]), fmt_6f(modified_depth[k])>>])
    ELSE files

\* Lines 144-156.
GenLoad ==
    /\ gen_pc = "line144"
    /\ IF horizon_files = <<>>
       THEN /\ gen_pc' = "returned"
            /\ UNCHANGED original_horizons
       ELSE LET loaded == load_all(horizon_files, 1, <<>>)
            IN  /\ original_horizons' = loaded.horizons
                /\ gen_pc' = IF loaded.returned THEN "returned" ELSE "line159"
    /\ UNCHANGED <<sampling_nx, horizon_files, updated_horizons, gen_i, plotted,
                   chopped>>

\* Lines 159-163.
GenCheckX ==
    /\ gen_pc = "line159"
    /\ gen_pc' = IF \A k \in 2..Len(original_horizons) :
                       np_allclose(original_horizons[1].x, original_horizons[k].x)
                 THEN "line166"
                 ELSE "returned"
    /\ UNCHANGED <<sampling_nx, horizon_files, original_horizons,
                   updated_horizons, gen_i, plotted, chopped>>

\* Line 166.
GenFirst ==
    /\ gen_pc = "line166"
    /\ updated_horizons' = <<original_horizons[1]>>
    /\ gen_i' = 1
    /\ gen_pc' = "line167"
    /\ UNCHANGED <<sampling_nx, horizon_files, original_horizons, plotted, chopped>>

\* Lines 167-172: one pass of the loop, or its end.
GenCorrect ==
    /\ gen_pc = "line167"
    /\ IF gen_i < Len(original_horizons)
       THEN LET prev_depth == prev_depth_of(original_horizons, updated_horizons, gen_i)
                curr == original_horizons[gen_i + 1]
                corrected_depth == np_where_less(curr.depth, prev_depth)
            IN  /\ updated_horizons' =
                       Append(updated_horizons, [x |-> curr.x, depth |-> corrected_depth])
                /\ gen_i' = gen_i + 1
                /\ UNCHANGED gen_pc
       ELSE /\ gen_pc' = "line175"
            /\ UNCHANGED <<updated_horizons, gen_i>>
    /\ UNCHANGED <<sampling_nx, horizon_files, original_horizons, plotted, chopped>>

\* Line 175; the figure reads both lists and changes neither.
GenPlot ==
    /\ gen_pc = "line175"
    /\ plotted' = TRUE
    /\ gen_i' = 0
    /\ gen_pc' = "line178"
    /\ UNCHANGED <<sampling_nx, horizon_files, original_horizons,
                   updated_horizons, chopped>>

\* Lines 178-182: one pass of the loop, or its end.
GenSave ==
    /\ gen_pc = "line178"
    /\ IF gen_i < Len(original_horizons)
       THEN /\ chopped' = save_modified_horizon(chopped,
                              original_horizons[gen_i + 1].x,
                              original_horizons[gen_i + 1].depth,
                              updated_horizons[gen_i + 1].depth,
                              horizon_files[gen_i + 1].name)
            /\ gen_i' = gen_i + 1
            /\ UNCHANGED gen_pc
       ELSE /\ gen_pc' = "done"
            /\ UNCHANGED <<chopped, gen_i>>
    /\ UNCHANGED <<sampling_nx, horizon_files, original_horizons,
                   updated_horizons, plotted>>

\* The files the user may enter.  With same_file, an entry whose depths
\* repeat those of an earlier entry is that earlier file entered again;
\* otherwise every entry is a file of its own.
GenProfiles == [1..Len(GenX) -> GenDepths]

FirstWith(zs, k) == CHOOSE j \in 1..k : zs[j] = zs[k] /\ \A m \in 1..(j - 1) : zs[m] /= zs[k]

WellFormed(zs, same_file) ==
    [k \in 1..Len(zs) |->
        [name |-> IF same_file THEN FirstWith(zs, k) ELSE k,
         ncols |-> 2, x |-> GenX, z |-> zs[k]]]

Malformed ==
    {[name |-> 0, ncols |-> 2, x |-> Append(GenX, Rat(200)),
      z |-> [k \in 1..(Len(GenX) + 1) |-> Rat(10)]],
     [name |-> 0, ncols |-> 3, x |-> GenX, z |-> [k \in 1..Len(GenX) |-> Rat(10)]],
     [name |-> 0, ncols |-> 2, x |-> <<Rat(0)>>, z |-> <<Rat(10)>>],
     [name |-> 0, ncols |-> 2, x |-> [k \in 1..Len(GenX) |-> Rat(k)],
      z |-> [k \in 1..Len(GenX) |-> Rat(10)]]}

GenRuns ==
    LET good(n) == [1..n -> GenProfiles]
    IN  UNION {{WellFormed(zs, f) : zs \in good(n), f \in BOOLEAN} : n \in 0..MaxHorizons}
        \cup UNION {{Append(WellFormed(zs, FALSE), bad) : zs \in good(n), bad \in Malformed} :
                    n \in 0..(MaxHorizons - 1)}

\* Lines 141-144: the parameters and the file names are entered.
InitGen ==
    /\ sampling_nx = Len(GenX)
    /\ horizon_files \in GenRuns
    /\ original_horizons = <<>>
    /\ updated_horizons = <<>>
    /\ gen_i = 0
    /\ gen_pc = "line144"
    /\ plotted = FALSE
    /\ chopped = <<>>
    /\ heap = <<>>
    /\ data = 0
    /\ CallerIdle
    /\ ThreadsIdle
    /\ MainIdle
    /\ EditorIdle
    /\ BuildIdle

notGen == <<smoothVars, mainVars, editorVars, buildVars>>

LoadHorizonFiles == GenLoad /\ UNCHANGED notGen

CheckXCoordinates == GenCheckX /\ UNCHANGED notGen

KeepFirstHorizon == GenFirst /\ UNCHANGED notGen

CorrectOverlap == GenCorrect /\ UNCHANGED notGen

PlotHorizons == GenPlot /\ UNCHANGED notGen

SaveModified == GenSave /\ UNCHANGED notGen

NextGen ==
    \/ LoadHorizonFiles
    \/ CheckXCoordinates
    \/ KeepFirstHorizon
    \/ CorrectOverlap
    \/ PlotHorizons
    \/ SaveModified

SpecGen == InitGen /\ [][NextGen]_vars

\* The overlap correction has processed every horizon.
Processed == gen_pc \in {"line175", "line178", "done"}

\* The depths of the source's original_horizons[i] and updated_horizons[i].
OriginalDepth(i) == original_horizons[i + 1].depth

UpdatedDepth(i) == updated_horizons[i + 1].depth

\* C20: after the overlap correction there is a corrected horizon for every
\* file entered, the originals are the depths of the files, and
\*   - at every position the corrected horizon i >= 1 is not shallower than
\*     the corrected horizon i - 1;
\*   - horizon 0 is as loaded, and gets no _chopped file;
\*   - a corrected depth differs from the original one only where the
\*     original one is shallower than the corrected previous horizon.
C20_OverlapCorrected ==
    Processed =>
        /\ Len(updated_horizons) = Len(horizon_files)
        /\ \A i \in 0..(Len(horizon_files) - 1) :
              OriginalDepth(i) = horizon_files[i + 1].z
        /\ \A i \in 1..(Len(horizon_files) - 1) : \A k \in 1..sampling_nx :
              /\ RLeq(UpdatedDepth(i - 1)[k], UpdatedDepth(i)[k])
              /\ UpdatedDepth(i)[k] /= OriginalDepth(i)[k]
                     => RLess(OriginalDepth(i)[k], UpdatedDepth(i - 1)[k])
        /\ UpdatedDepth(0) = OriginalDepth(0)
        /\ (\A k \in 2..Len(horizon_files) :
                horizon_files[k].name /= horizon_files[1].name)
               => horizon_files[1].name \notin DOMAIN chopped

\* Three horizons, the second corrected at a position where the third lies
\* between the original and the corrected second.
C20_Witness ==
    /\ gen_pc = "done"
    /\ Len(horizon_files) = 3
    /\ \E k \in 1..sampling_nx :
          /\ RLess(OriginalDepth(1)[k], OriginalDepth(2)[k])
          /\ RLess(OriginalDepth(2)[k], UpdatedDepth(1)[k])
          /\ UpdatedDepth(2)[k] = OriginalDepth(0)[k]


\* The names of the files entered are all different.
DistinctFiles ==
    \A j, k \in 1..Len(horizon_files) :
        horizon_files[j].name = horizon_files[k].name => j = k

\* C21: when the run is over and the files entered are all different, a
\* horizon has a _chopped file if and only if the overlap correction changed
\* one of its depths.
C21_ChoppedIffChanged ==
    (gen_pc = "done" /\ DistinctFiles) =>
        \A i \in 0..(Len(horizon_files) - 1) :
            (horizon_files[i + 1].name \in DOMAIN chopped)
                <=> (UpdatedDepth(i) /= OriginalDepth(i))


\* The window of the last call as smooth2 extracts it (line 89).
CallWindow ==
    GetSlice(Given, Slice(Win[1], Win[2], Given.n1), Slice(Win[3], Win[4], Given.n2))

\* C22: flattening order.  smooth2 flattens the window axis-1-fastest:
\* sample (i1, i2) of the n1w x n2w window sits at flat position
\* i2 * n1w + i1; and unflattening the flat vector in the order of line 100
\* gives the window back (one order for both steps).
C22_FlattenAxis1Fastest ==
    (Returned /\ ValidArgs) =>
        LET sub == CallWindow
            f == flatten(sub)
        IN  /\ \A c \in Cells(sub) : f[c[2] * sub.n1 + c[1]] = At(sub, c)
            /\ reshape(f, sub.n1, sub.n2) = sub


(***************************************************************************)
(* The construction of the system matrix, for every window size: the       *)
(* statements of build_regularization (lines 56-65) and lines 95-97 of     *)
(* smooth2, one action per group of statements that can raise.             *)
(***************************************************************************)
MaxAxis == 3   \* longest axis of a window

BuildCoefficients == {0, 1, 2} \X {0, 1, 2}

InitBuild ==
    /\ \E n1 \in 0..MaxAxis, n2 \in 0..MaxAxis, r \in BuildCoefficients :
          built = [NoBuild EXCEPT !.n1 = n1, !.n2 = n2, !.r1 = r[1], !.r2 = r[2]]
    /\ build_pc = "line56"
    /\ heap = <<>>
    /\ data = 0
    /\ CallerIdle
    /\ ThreadsIdle
    /\ MainIdle
    /\ EditorIdle
    /\ GenIdle

notBuild == <<smoothVars, mainVars, editorVars, genVars>>

\* Lines 56-59: I1, I2 and D1 = build_diff_matrix(n1).
BuildD1 ==
    /\ build_pc = "line56"
    /\ IF DiffMatrixRaises(built.n1)
       THEN /\ built' = [built EXCEPT !.exc = "ValueError"]
            /\ build_pc' = "raised"
       ELSE /\ built' = [built EXCEPT !.D1 = build_diff_matrix(built.n1)]
            /\ build_pc' = "line60"
    /\ UNCHANGED notBuild

\* Lines 60-62: R1 and D2 = build_diff_matrix(n2).
BuildD2 ==
    /\ build_pc = "line60"
    /\ IF DiffMatrixRaises(built.n2)
       THEN /\ built' = [built EXCEPT !.exc = "ValueError"]
            /\ build_pc' = "raised"
       ELSE /\ built' = [built EXCEPT !.D2 = build_diff_matrix(built.n2)]
            /\ build_pc' = "line63"
    /\ UNCHANGED notBuild

\* Lines 63-65: R2 and the value returned.
BuildR ==
    /\ build_pc = "line63"
    /\ built' = [built EXCEPT
                     !.R = build_regularization(built.n1, built.n2, built.r1, built.r2)]
    /\ build_pc' = "line95"
    /\ UNCHANGED notBuild

\* Lines 95-97 of smooth2: lhs = (A + R).tocsr() with A = eye(N).
BuildLhs ==
    /\ build_pc = "line95"
    /\ built' = [built EXCEPT !.lhs = MatAdd(Eye(built.n1 * built.n2), built.R)]
    /\ build_pc' = "line99"
    /\ UNCHANGED notBuild

NextBuild ==
    \/ BuildD1
    \/ BuildD2
    \/ BuildR
    \/ BuildLhs

SpecBuild == InitBuild /\ [][NextBuild]_vars

\* The window sample that smooth2 puts at each flat position: the flattening
\* of line 92 applied to the window of the index pairs.
FlatCellOf(n1, n2) == flatten(Array(n1, n2, LAMBDA i1, i2 : <<i1, i2>>))

RBuilt == build_pc \in {"line95", "line99"}

\* C23: penalty stencil, for every window shape.  Read under the flattening
\* of line 92, a non-zero off-diagonal entry of R joins two samples that
\* are neighbours along one axis of the window; the entry between (i1, i2)
\* and (i1 + 1, i2) is -r1 and the entry between (i1, i2) and (i1, i2 + 1)
\* is -r2.  (So no entry joins the end of a row or column to the start of
\* the next.)
C23_PenaltyStencil ==
    RBuilt =>
        LET R == built.R
            cell == FlatCellOf(built.n1, built.n2)
        IN  \A i \in 0..(R.rows - 1), j \in 0..(R.cols - 1) :
                LET a == cell[i]
                    b == cell[j]
                    along1 == a[2] = b[2] /\ Abs(a[1] - b[1]) = 1
                    along2 == a[1] = b[1] /\ Abs(a[2] - b[2]) = 1
                IN  /\ (i /= j /\ R.e[i][j] /= 0) => (along1 \/ along2)
                    /\ along1 => R.e[i][j] = -built.r1
                    /\ along2 => R.e[i][j] = -built.r2


D1Built == build_pc \in {"line60", "line63", "line95", "line99"}

D2Built == build_pc \in {"line63", "line95", "line99"}

\* C24: degenerate axis.  build_diff_matrix(n) succeeds for every n >= 0
\* (the construction never raises) and gives max(n - 1, 0) rows and n
\* columns; and for a window 1 sample long along an axis the construction
\* succeeds with no penalty along that axis: R is what the other axis'
\* coefficient alone gives.
C24_DegenerateAxis ==
    /\ build_pc /= "raised"
    /\ D1Built => /\ built.D1.rows = (IF built.n1 >= 1 THEN built.n1 - 1 ELSE 0)
                  /\ built.D1.cols = built.n1
    /\ D2Built => /\ built.D2.rows = (IF built.n2 >= 1 THEN built.n2 - 1 ELSE 0)
                  /\ built.D2.cols = built.n2
    /\ (RBuilt /\ built.n1 = 1) =>
           built.R = build_regularization(1, built.n2, 0, built.r2)
    /\ (RBuilt /\ built.n2 = 1) =>
           built.R = build_regularization(built.n1, 1, built.r1, 0)


\* Values of the sequences a difference operator is applied to.
SampleValues == {-1, 0, 2}

\* D @ s for a sequence s, a function on 0..(D.cols - 1)
Applied(D, s) ==
    LET column == [rows |-> D.cols, cols |-> 1,
                   e |-> [j \in 0..(D.cols - 1) |-> [c \in {0} |-> s[j]]]]
    IN  [i \in 0..(D.rows - 1) |-> MatMul(D, column).e[i][0]]

\* D is the first-difference operator on sequences of n samples
IsFirstDifference(D, n) ==
    /\ D.rows = n - 1
    /\ D.cols = n
    /\ DOMAIN D.e = 0..(n - 2)
    /\ \A i \in 0..(n - 2) :
           /\ DOMAIN D.e[i] = 0..(n - 1)
           /\ D.e[i][i] = -1
           /\ D.e[i][i + 1] = 1
           /\ \A j \in 0..(n - 1) \ {i, i + 1} : D.e[i][j] = 0
    /\ \A s \in [0..(n - 1) -> SampleValues] :
           Applied(D, s) = [i \in 0..(n - 2) |-> s[i + 1] - s[i]]

\* C25: for every n >= 2, build_diff_matrix(n) has n - 1 rows and n columns,
\* row i holds -1 at column i, +1 at column i + 1 and zeros elsewhere, and
\* applied to a sequence s it gives s[i + 1] - s[i] for i in 0..n-2.  Stated
\* of both operators build_regularization builds (lines 59 and 62).
C25_FirstDifference ==
    /\ (D1Built /\ built.n1 >= 2) => IsFirstDifference(built.D1, built.n1)
    /\ (D2Built /\ built.n2 >= 2) => IsFirstDifference(built.D2, built.n2)

\* Both operators are built, one of them with more than one row.
C25_Witness ==
    /\ D2Built
    /\ built.n1 >= 3
    /\ built.n2 >= 2
    /\ built.D1.rows = 2


LhsBuilt == build_pc = "line99"

\* The columns of row i of X that hold a non-zero entry
NonZeros(X, i) == {j \in 0..(X.cols - 1) : X.e[i][j] # 0}

\* All positions of X that hold a non-zero entry
AllNonZeros(X) == {p \in (0..(X.rows - 1)) \X (0..(X.cols - 1)) : X.e[p[1]][p[2]] # 0}

\* C26: sparsity.  For every window size and all r1, r2 >= 0, each row of
\* the system matrix lhs = I + R has at most 5 non-zero entries: the
\* diagonal, the two positions next to it and the two positions n1w away
\* from it (the two neighbours per axis of the Kronecker layout); so the
\* matrix has at most 5 * n1w * n2w non-zero entries.
C26_Sparsity ==
    LhsBuilt =>
        /\ \A i \in 0..(built.lhs.rows - 1) :
               /\ Cardinality(NonZeros(built.lhs, i)) <= 5
               /\ NonZeros(built.lhs, i) \subseteq
                      {i, i - 1, i + 1, i - built.n1, i + built.n1}
        /\ Cardinality(AllNonZeros(built.lhs)) <= 5 * built.n1 * built.n2

\* A system matrix with a row of exactly 5 non-zero entries.
C26_Witness ==
    /\ LhsBuilt
    /\ built.r1 > 0
    /\ built.r2 > 0
    /\ \E i \in 0..(built.lhs.rows - 1) : Cardinality(NonZeros(built.lhs, i)) = 5


\* The depths np.loadtxt reads from the file of a loaded horizon: data[:, 1]
FileDepths(name) ==
    LET file == CHOOSE f \in EditorFiles : f.name = name
    IN  [k \in 0..(Len(file.z) - 1) |-> file.z[k + 1]]

\* The step that handles a request of Undo.
UndoStep == Handled /\ undo

\* C27: whatever events the editor has handled, the history of every loaded
\* horizon is non-empty and its first entry is the depths as loaded from
\* the file; and a request of Undo that finds one entry in the history of
\* the selected horizon changes neither a history nor a horizon.
C27_HistoryKeepsLoaded ==
    /\ [](\A name \in DOMAIN horizons :
              /\ Len(history[name]) >= 1
              /\ history[name][1] = FileDepths(name)
              /\ history[name][1] = original_z[name])
    /\ [][(UndoStep /\ selected_line /= NoLine
                    /\ Len(history[selected_line]) = 1)
             => UNCHANGED <<history, horizons>>]_vars

\* The selected horizon was edited and its history holds one entry: a
\* request of Undo finds nothing to pop.
C27_Witness ==
    /\ PointSelected
    /\ Len(history[selected_line]) = 1
    /\ horizons[selected_line] /= original_z[selected_line]


(***************************************************************************)
(* The editor's run followed gesture by gesture: the handlers of           *)
(* SpecEditor, on one file and with the pointer in the axes, and with      *)
(* them the place of the user in a drag.                                   *)
(***************************************************************************)
MaxSession == 7   \* events handled in a session

SessionFile == CHOOSE f \in EditorFiles : f.name = "top"

SessionClickX == {Rat(0), Rat(DefaultDx + DefaultDx \div 2)}

SessionClickY == {Rat(110), Rat(500)}

SessionHandled == events < MaxSession /\ events' = events + 1 /\ UNCHANGED notEditor

SessionLoad ==
    /\ SessionHandled
    /\ load_horizon_dialog(<<SessionFile>>)
    /\ gesture' = NoGesture

\* button_press_event
SessionPress ==
    /\ SessionHandled
    /\ \E xdata \in SessionClickX, ydata \in SessionClickY : on_click(TRUE, xdata, ydata)
    /\ gesture' = IF selected_line' /= NoLine
                  THEN [phase |-> "pressed", before |-> horizons[selected_line']]
                  ELSE NoGesture

\* motion_notify_event
SessionMotion ==
    /\ SessionHandled
    /\ \E ydata \in DragY : on_drag(TRUE, ydata)
    /\ gesture' = IF gesture.phase \in {"pressed", "moved"}
                  THEN [gesture EXCEPT !.phase = "moved"]
                  ELSE NoGesture

\* button_release_event
SessionRelease ==
    /\ SessionHandled
    /\ on_release
    /\ gesture' = IF gesture.phase = "moved"
                  THEN [gesture EXCEPT !.phase = "released"]
                  ELSE NoGesture

SessionKey ==
    /\ SessionHandled
    /\ \E key \in Keys : key_binding(key)
    /\ gesture' = NoGesture

SessionUndo ==
    /\ SessionHandled
    /\ undo
    /\ gesture' = IF gesture.phase = "released"
                  THEN [gesture EXCEPT !.phase = "undone"]
                  ELSE NoGesture

NextSession ==
    \/ SessionLoad
    \/ SessionPress
    \/ SessionMotion
    \/ SessionRelease
    \/ SessionKey
    \/ SessionUndo

SpecSession == InitEditor /\ [][NextSession]_vars

\* C28: Undo reverts the last edit.  After a completed drag on the selected
\* horizon (a press that selects a point, one or more motions, the release)
\* followed at once by Undo, the depths of the selected horizon are the
\* depths it had immediately before that press, whatever key moves and
\* clicks came earlier.
C28_UndoRevertsDrag ==
    gesture.phase = "undone" => horizons[selected_line] = gesture.before


\* C29: in every reachable state of the editor selected_line and
\* selected_idx are both None, or selected_line names a loaded horizon and
\* 0 <= selected_idx < nx; and a press of Left at index 0 or of Right at
\* index nx - 1 leaves the selection as it is.
C29_SelectionInRange ==
    /\ [](\/ selected_line = NoLine /\ selected_idx = -1
          \/ /\ selected_line \in DOMAIN horizons
             /\ selected_idx \in 0..(nx - 1))
    /\ [][(\/ KeyStep("Left") /\ PointSelected /\ selected_idx = 0
           \/ KeyStep("Right") /\ PointSelected /\ selected_idx = nx - 1)
             => UNCHANGED <<selected_line, selected_idx>>]_vars

\* The last point of a loaded horizon is selected: Right has no next index.
C29_Witness ==
    /\ selected_line \in DOMAIN horizons
    /\ selected_idx = nx - 1


\* The steps that handle a button press, a motion of the pointer, a release.
PressStep ==
    /\ Handled
    /\ \E inaxes \in BOOLEAN, xdata \in ClickX, ydata \in ClickY :
           on_click(inaxes, xdata, ydata)

MotionStep == Handled /\ \E inaxes \in BOOLEAN, ydata \in DragY : on_drag(inaxes, ydata)

ReleaseStep == Handled /\ on_release

====
